---- MODULE Spec2Model ----
(***************************************************************************)
(* minssh: the interactive terminal session engine (unix build).           *)
(*                                                                         *)
(* The model follows pkg/minssh/minssh.go, pkg/minssh/minssh_unix.go and   *)
(* the application's main.go: one main goroutine (app.run -> Open -> Run   *)
(* -> RunInteractive | RunCommand, or a library caller of RunSubsystem,    *)
(* then the deferred Close), the goroutines RunInteractive spawns (resize  *)
(* watcher, resize pump, stdin/stdout/stderr pumps, exit waiter), the      *)
(* prompt signal handler of Open, and the environment (OS termination      *)
(* signals, window resizes, the remote program, the local stdin).          *)
(***************************************************************************)
EXTENDS Integers, Sequences, FiniteSets, TLC

\* ---------------------------------------------------------------- bounds
MaxSignals == 1   \* OS termination signals the environment delivers
MaxResize == 2    \* window size changes the environment makes
MaxSizes == 3     \* distinct window sizes the environment chooses from
MaxInput == 2     \* data chunks local stdin yields before EOF or an error

\* Window sizes <<width, height>>: <<1,1>>, <<2,1>>, <<1,2>>, <<2,2>>, ...
\* (two of them differ in the width only, in the height only, or in both).
SizeOf(i) == <<1 + (i % 2), 1 + (i \div 2)>>

Sizes == {SizeOf(i) : i \in 0..(MaxSizes - 1)}

NoErr == "nil"

\* buf := make([]byte, 128) of the stdin pump.
BufSize == 128

VARIABLES
    conf,        \* Config: [command: BOOLEAN (Command # ""), isSubsystem, noTTY,
                 \*          quiet: BOOLEAN (QuietMode)]
    caller,      \* "app" (main.go calls Run) or "lib" (a caller of RunSubsystem)
    pcMain,      \* position of the main goroutine
    mode,        \* which Run* method is executing: "none", "interactive", "command", "subsystem"
    retErr,      \* the error the Run* method returned (NoErr for nil)
    exitCode,    \* process exit status, -1 while running
    setupLog,    \* remote setup steps performed so far, in order
    setupWH,     \* prepareRemoteTerminal's w, h
    conn,        \* ms.conn: "none", "open" (ssh.Dial succeeded), "closed" (conn.Close)
    termMode,    \* the local terminal: "cooked" (original) or "raw"
    origMode,    \* ms.sys.origMode: "nil" or "saved"
    closeLog,    \* the steps Close has performed, in order
    prompted,    \* Open showed an interactive prompt
    pcHandler,   \* the prompt's signal-handler goroutine
    promptReg,   \* the prompt's signal channel is registered with the runtime
    promptC,     \* number of signals buffered in the prompt's channel (cap 1)
    sessReg,     \* watchSignals' channel sigC is registered
    sigC,        \* number of signals buffered in sigC (cap 1)
    nSignals,    \* termination signals delivered so far
    ctxDone,     \* the cancellation scope was cancelled
    wg,          \* ms.wg counter
    nGotSignal,  \* how many times the select's signal case ran ("got signal")
    nExitMsg,    \* how many times the select's exit case ran (printExitMessage)
    exitMsgs,    \* the messages printExitMessage has printed, in order
    bothReady,   \* both select cases were ready when the select ran
    winSize,     \* the local window <<width, height>>
    nResize,     \* window changes so far
    winchReg,    \* SIGWINCH is delivered to the watcher's channel
    winchC,      \* SIGWINCH buffered in the watcher's signal channel (cap 1)
    ch,          \* notifications buffered in the watcher's output channel (cap 1)
    chCloses,    \* how many times close(ch) ran
    chSends,     \* sends on ch attempted after it was closed
    pcWatcher,   \* the resize watcher goroutine
    pcPump,      \* the resize pump goroutine
    lastWH,      \* the pump's w, h: last-known <<width, height>>
    newWH,       \* the pump's newW, newH
    nSends,      \* window-change requests sent (SendRequest calls)
    lastFailed,  \* the most recent window-change send failed
    remoteWH,    \* the size the remote pty was last told, <<0, 0>> when none
    pcStdin,     \* the stdin pump goroutine
    nInput,      \* data chunks read from local stdin so far
    nWritten,    \* data chunks written to remote stdin so far
    stdinCloses, \* how many times the pump called ms.rStdin.Close()
    stdinStarts, \* how many times the stdin pump was started
    stdinEnd,    \* why the stdin pump stopped: "none", "eof", "error", "writeError"
    pcStdout,    \* the stdout pump goroutine
    pcStderr,    \* the stderr pump goroutine
    pcWaiter,    \* the exit waiter goroutine
    waitErr,     \* the value the waiter is sending on sessC
    remote,      \* the remote program: "none", "running", "exited"
    host,        \* the platform: [goos, vtInput, vtOutput, vtErr, dnar] (what the
                 \* consoles of stdin, stdout and stderr accept)
    sys,         \* ms.sys (windows): stdinMode, stdoutMode, stderrMode, emuStdin, emuStdout
    conMode,     \* the console's current mode of stdin, stdout, stderr (windows)
    consoleLog,  \* the setConsoleMode calls made so far: [fd, mode, ok]
    stdinSrc,    \* what local stdin will still deliver: bytes, or input records
                 \* when the input emulator reads the console
    stdinGot,    \* what the stdin pump has read from local stdin so far
    buf,         \* the bytes of the pump's buf[:n] waiting to be written
    rStdinData,  \* the bytes written to the remote stdin pipe so far
    outSrc,      \* the bytes the remote side sends to stdout and to stderr
    aw,          \* per output stream: the ansiWriter's parser state and the
                 \* console operations made
    awPos,       \* per output stream: how many bytes of outSrc io.Copy has written
    awN,         \* per output stream: the sum of the counts Write has returned
    awWrites,    \* per output stream: the number of Write calls
    keyEv,       \* the key event record last handed to toAnsiSeq
    keySeq,      \* the byte sequence toAnsiSeq returned for keyEv
    ar,          \* ansiReader instances: ar[i] is the lastRune of reader i
    arRecs,      \* the input records of reader i's last Read
    arOut,       \* the bytes reader i's last Read returned
    hkIn,        \* what verifyAndAppendNew is given (see HostKeyInputs)
    hkOut,       \* what verifyAndAppendNew returned and did
    idIn,        \* the command line and the files parseArgs finds (see IdentityInputs)
    idOut        \* a.conf.IdentityFiles after parseArgs, or "pending"

mainVars == <<conf, caller, pcMain, mode, retErr, exitCode, setupLog, closeLog>>
setupVars == <<setupWH, conn>>
termVars == <<termMode, origMode>>
sigVars == <<prompted, pcHandler, promptReg, promptC, sessReg, sigC, nSignals>>
ctxVars == <<ctxDone, wg, nGotSignal, nExitMsg, exitMsgs, bothReady>>
resizeVars == <<winSize, nResize, winchReg, winchC, ch, chCloses, chSends,
                pcWatcher, pcPump, lastWH, newWH, nSends, lastFailed, remoteWH>>
ioVars == <<pcStdin, nInput, nWritten, stdinCloses, stdinStarts, stdinEnd, pcStdout,
           pcStderr>>
remoteVars == <<pcWaiter, waitErr, remote>>

sysVars == <<host, sys, conMode, consoleLog>>
dataVars == <<stdinSrc, stdinGot, buf, rStdinData>>
outVars == <<outSrc, aw, awPos, awN, awWrites>>
authVars == <<hkIn, hkOut, idIn, idOut>>
emuVars == <<keyEv, keySeq, ar, arRecs, arOut, outVars, authVars>>

vars == <<mainVars, setupVars, termVars, sigVars, ctxVars, resizeVars, ioVars, remoteVars,
          sysVars, dataVars, emuVars>>

\* The process is running: neither returned from main nor killed by a signal.
Alive == pcMain \notin {"exited", "killed"}

\* Config as parseArgs fills it: every combination of a command being given
\* and the flags -s (IsSubsystem), -T (NoTTY) and -q (QuietMode).
Configs == [command : BOOLEAN, isSubsystem : BOOLEAN, noTTY : BOOLEAN,
            quiet : BOOLEAN]

\* The configurations without -s and -q, the two flags that the session
\* reads only where it chooses the Run* method and prints the exit message.
PlainConfigs == {c \in Configs : ~c.isSubsystem /\ ~c.quiet}

\* The process starts with one of the configurations confs; a library caller
\* of RunSubsystem passes a command and leaves the pty default.
InitConf(confs) ==
    /\ conf \in confs
    /\ caller \in {"app", "lib"}
    /\ caller = "lib" => conf.command /\ ~conf.noTTY

\* The modes of a console in its usual state: stdin with line input, echo and
\* processed input, stdout and stderr with processed output and wrapping.
CookedConsole == [stdin |-> 503, stdout |-> 3, stderr |-> 3]

\* The state of the process at the start of main, its standard handles on
\* consoles with the modes con.
InitSessionOn(con) ==
    /\ pcMain = "isTerminal"
    /\ mode = "none"
    /\ retErr = NoErr
    /\ exitCode = -1
    /\ setupLog = <<>>
    /\ setupWH = <<0, 0>>
    /\ conn = "none"
    /\ closeLog = <<>>
    /\ termMode = "cooked"
    /\ origMode = "nil"
    /\ prompted = FALSE
    /\ pcHandler = "none"
    /\ promptReg = FALSE
    /\ promptC = 0
    /\ sessReg = FALSE
    /\ sigC = 0
    /\ nSignals = 0
    /\ ctxDone = FALSE
    /\ wg = 0
    /\ nGotSignal = 0
    /\ nExitMsg = 0
    /\ exitMsgs = <<>>
    /\ bothReady = FALSE
    /\ winSize = <<1, 1>>
    /\ nResize = 0
    /\ winchReg = FALSE
    /\ winchC = 0
    /\ ch = 0
    /\ chCloses = 0
    /\ chSends = 0
    /\ pcWatcher = "notstarted"
    /\ pcPump = "notstarted"
    /\ lastWH = <<0, 0>>
    /\ newWH = <<0, 0>>
    /\ nSends = 0
    /\ lastFailed = FALSE
    /\ remoteWH = <<0, 0>>
    /\ pcStdin = "notstarted"
    /\ nInput = 0
    /\ nWritten = 0
    /\ stdinCloses = 0
    /\ stdinStarts = 0
    /\ stdinEnd = "none"
    /\ pcStdout = "notstarted"
    /\ pcStderr = "notstarted"
    /\ pcWaiter = "notstarted"
    /\ waitErr = NoErr
    /\ remote = "none"
    /\ sys = [stdinMode |-> 0, stdoutMode |-> 0, stderrMode |-> 0,
              emuStdin |-> FALSE, emuStdout |-> FALSE]
    /\ conMode = con
    /\ consoleLog = <<>>
    /\ stdinGot = <<>>
    /\ buf = <<>>
    /\ rStdinData = <<>>

InitSession == InitSessionOn(CookedConsole)

\* ------------------------------------------------- host key verification
\* verifyAndAppendNew, the HostKeyCallback of Open. What it is given:
\*   files   the number of files in conf.KnownHostsFiles;
\*   loadOk  knownhosts.New could read them;
\*   lookup  the answer of the knownhosts callback for the host and its key:
\*           "match" (nil), "unknown" (*KeyError with an empty Want: no entry
\*           of the host), "conflict" (*KeyError with the keys wanted for the
\*           host), "other" (another error, such as a revoked key);
\*   strict  conf.StrictHostKeyChecking;
\*   answer  what askAddingUnknownHostKey returns when it is called;
\*   openOk, writeOk  os.OpenFile and f.WriteString on the first file.
MaxKnownHostsFiles == 2

HostKeyLookups == {"match", "unknown", "conflict", "other"}

HostKeyAnswers == {"yes", "no", "error"}

HostKeyInputs ==
    [files : 0..MaxKnownHostsFiles, loadOk : BOOLEAN, lookup : HostKeyLookups,
     strict : BOOLEAN, answer : HostKeyAnswers, openOk : BOOLEAN, writeOk : BOOLEAN]

\* The result: the error returned ("nil" accepts the host), whether the user
\* was asked, and the files a line was appended to, by their index in
\* conf.KnownHostsFiles.
HostKeyResult(err, asked, appended) ==
    [err |-> err, asked |-> asked, appended |-> appended]

\* Mutant: every *KeyError counts as an unknown host.
HostUnknown_AnyKeyError(lookup) == lookup \in {"unknown", "conflict"}

\* keyErr, ok := err.(*knownhosts.KeyError); if !ok || len(keyErr.Want) > 0
\* { return err }: the host is unknown when the error is a KeyError that
\* wants no key.
HostUnknown(lookup) == lookup = "unknown"

verifyAndAppendNew(in) ==
    IF in.files = 0
    THEN HostKeyResult("failed:no knownhosts file", FALSE, <<>>)
    ELSE IF ~in.loadOk
    THEN HostKeyResult("failed:load knownhosts", FALSE, <<>>)
    ELSE IF in.lookup = "match"
    THEN HostKeyResult(NoErr, FALSE, <<>>)
    ELSE IF ~HostUnknown(in.lookup)
    THEN HostKeyResult("failed:" \o in.lookup, FALSE, <<>>)
    ELSE IF in.strict /\ in.answer # "yes"
    THEN HostKeyResult("failed:host key verification", TRUE, <<>>)
    ELSE IF ~in.openOk
    THEN HostKeyResult("failed:add new host key", in.strict, <<>>)
    ELSE IF ~in.writeOk
    THEN HostKeyResult("failed:add new host key", in.strict, <<>>)
    ELSE HostKeyResult(NoErr, in.strict, <<1>>)

\* No host key was verified yet.
NotVerified == HostKeyResult("pending", FALSE, <<>>)

\* The host key callback will be called with one of ins.
InitHostKey(ins) ==
    /\ hkIn \in ins
    /\ hkOut = NotVerified

\* A host with a matching entry in one known-hosts file.
KnownHost ==
    [files |-> 1, loadOk |-> TRUE, lookup |-> "match", strict |-> TRUE,
     answer |-> "no", openOk |-> TRUE, writeOk |-> TRUE]

\* ssh.Dial calls the HostKeyCallback once during the handshake.
VerifyAndAppendNew ==
    /\ hkOut = NotVerified
    /\ hkOut' = verifyAndAppendNew(hkIn)
    /\ UNCHANGED <<hkIn, idIn, idOut, keyEv, keySeq, ar, arRecs, arOut, outVars>>
    /\ UNCHANGED <<mainVars, setupVars, termVars, sigVars, ctxVars, resizeVars,
                   ioVars, remoteVars, sysVars, dataVars>>

\* ------------------------------------------------- default identity files
\* cmd/minssh/main.go, parseArgs: a.conf.IdentityFiles after the flags were
\* parsed. A path is <<directory, file name>>; "app" is a.dir, "ssh" is
\* filepath.Join(a.homeDir, ".ssh").
defaultIdentityFiles == <<"id_rsa", "id_dsa", "id_ecdsa", "id_ed25519">>

DefaultNames == {defaultIdentityFiles[i] : i \in 1..Len(defaultIdentityFiles)}

\* The -i arguments, the default files os.Lstat finds in a.dir and in the
\* .ssh directory, and -U.
IdentityInputs ==
    [given : {<<>>, <<<<"cwd", "key">>>>},
     appFiles : SUBSET DefaultNames,
     sshFiles : SUBSET DefaultNames,
     useOpenSSHFiles : BOOLEAN]

\* for _, f := range defaultIdentityFiles { f = filepath.Join(a.dir, f)
\*   if _, err := os.Lstat(f); err == nil {
\*     a.conf.IdentityFiles = append(a.conf.IdentityFiles) } }
\* The append has no element: the slice stays as it is.
RECURSIVE addAppDefaults(_, _, _)
addAppDefaults(files, names, found) ==
    IF names = <<>> THEN files
    ELSE addAppDefaults(files, Tail(names), found)

\* for _, f := range defaultIdentityFiles { f = filepath.Join(a.homeDir, ".ssh", f)
\*   if _, err := os.Lstat(f); err == nil {
\*     a.conf.IdentityFiles = append(a.conf.IdentityFiles, f) } }
RECURSIVE addSSHDefaults(_, _, _)
addSSHDefaults(files, names, found) ==
    IF names = <<>> THEN files
    ELSE addSSHDefaults(IF Head(names) \in found
                        THEN Append(files, <<"ssh", Head(names)>>)
                        ELSE files,
                        Tail(names), found)

\* if len(a.conf.IdentityFiles) == 0 { ... if useOpenSSHFiles { ... } }
identityFiles(in) ==
    IF Len(in.given) # 0 THEN in.given
    ELSE LET own == addAppDefaults(in.given, defaultIdentityFiles, in.appFiles)
         IN  IF in.useOpenSSHFiles
             THEN addSSHDefaults(own, defaultIdentityFiles, in.sshFiles)
             ELSE own

InitIdentity(ins) ==
    /\ idIn \in ins
    /\ idOut = "pending"

\* A command line with one -i argument.
GivenIdentity ==
    [given |-> <<<<"cwd", "key">>>>, appFiles |-> {}, sshFiles |-> {},
     useOpenSSHFiles |-> FALSE]

\* app.parseArgs, as far as the identity files go.
ParseArgs ==
    /\ idOut = "pending"
    /\ idOut' = identityFiles(idIn)
    /\ UNCHANGED <<idIn, hkIn, hkOut, keyEv, keySeq, ar, arRecs, arOut, outVars>>
    /\ UNCHANGED <<mainVars, setupVars, termVars, sigVars, ctxVars, resizeVars,
                   ioVars, remoteVars, sysVars, dataVars>>

\* ------------------------------------------------ console output emulation
\* ansi_windows.go, ansiWriter. The parser behind it (ansiterm.CreateParser)
\* is not part of the source tree; its states and transitions are those of
\* the ConsoleOutputEmulator of the specification: Ground, Escape,
\* CSI-collecting and OSC-collecting.
ESC == 27

BEL == 7

\* The final bytes of the control sequences with a console operation: cursor
\* movement (A B C D H), erase display and line (J K), SGR (m), scroll
\* region (r).
CsiFinals == {65, 66, 67, 68, 72, 74, 75, 109, 114}

\* A parameter byte of a control sequence: a digit or ';'.
IsParamByte(b) == (48 <= b /\ b <= 57) \/ b = 59

\* A console operation: the final byte that selected it with the parameter
\* bytes collected, or a character output (final 0).
ConsoleOp(final, params) == [final |-> final, params |-> params]

\* One byte through the parser; ps = [state, params, ops].
parseByte(ps, b) ==
    IF ps.state = "Ground"
    THEN IF b = ESC THEN [ps EXCEPT !.state = "Escape"]
         ELSE [ps EXCEPT !.ops = Append(ps.ops, ConsoleOp(0, <<b>>))]
    ELSE IF ps.state = "Escape"
    THEN IF b = 91 THEN [ps EXCEPT !.state = "Csi", !.params = <<>>]
         ELSE IF b = 93 THEN [ps EXCEPT !.state = "Osc", !.params = <<>>]
         ELSE [ps EXCEPT !.state = "Ground"]
    ELSE IF ps.state = "Csi"
    THEN IF IsParamByte(b) THEN [ps EXCEPT !.params = Append(ps.params, b)]
         ELSE IF b \in CsiFinals
         THEN [state |-> "Ground", params |-> <<>>,
               ops |-> Append(ps.ops, ConsoleOp(b, ps.params))]
         ELSE [ps EXCEPT !.state = "Ground", !.params = <<>>]
    ELSE IF b = BEL THEN [ps EXCEPT !.state = "Ground", !.params = <<>>]
         ELSE IF b = ESC THEN [ps EXCEPT !.state = "Escape", !.params = <<>>]
         ELSE [ps EXCEPT !.params = Append(ps.params, b)]

\* aw.parser.Parse(p): every byte of p in turn.
RECURSIVE Parse(_, _)
Parse(ps, p) ==
    IF p = <<>> THEN ps ELSE Parse(parseByte(ps, Head(p)), Tail(p))

\* NewAnsiWriter: a writer with a parser in Ground; ops are the console
\* operations its event handler has made.
NewAnsiWriter == [state |-> "Ground", params |-> <<>>, ops |-> <<>>]

\* Mutant: every Write parses with a parser of its own, as a writer made per
\* call would.
Write_NewParser(w, p) ==
    IF p = <<>> THEN [aw |-> w, n |-> 0]
    ELSE [aw |-> Parse([NewAnsiWriter EXCEPT !.ops = w.ops], p), n |-> Len(p)]

\* ansiWriter.Write: nothing for an empty p, else the parser takes all of p.
Write(w, p) ==
    IF p = <<>> THEN [aw |-> w, n |-> 0]
    ELSE [aw |-> Parse(w, p), n |-> Len(p)]

\* What the remote side sends: red "hi" and reset; a cursor position; a
\* sequence with an unknown final byte before a reset; a window title ended
\* by BEL and one ended by ESC \, each before a character.
OutputSeqs ==
    {<<27, 91, 51, 49, 109, 104, 105, 27, 91, 48, 109>>,
     <<27, 91, 50, 59, 53, 72>>,
     <<27, 91, 57, 122, 27, 91, 48, 109>>,
     <<27, 93, 48, 59, 116, 7, 120>>,
     <<27, 93, 48, 59, 116, 27, 92, 120>>}

\* copyToStdout and copyToStderr make one writer each for the whole io.Copy.
OutStreams == {"stdout", "stderr"}

\* The remote side will send one of seqs to both streams.
InitOut(seqs) ==
    /\ outSrc \in seqs
    /\ aw = [s \in OutStreams |-> NewAnsiWriter]
    /\ awPos = [s \in OutStreams |-> 0]
    /\ awN = [s \in OutStreams |-> 0]
    /\ awWrites = [s \in OutStreams |-> 0]

\* io.Copy on one stream hands the next chunk of the remote output, of any
\* size, to the stream's writer.
WriterWrite ==
    \E s \in OutStreams :
      /\ awPos[s] < Len(outSrc)
      /\ \E k \in 1..(Len(outSrc) - awPos[s]) :
           LET res == Write(aw[s], SubSeq(outSrc, awPos[s] + 1, awPos[s] + k)) IN
           /\ aw' = [aw EXCEPT ![s] = res.aw]
           /\ awN' = [awN EXCEPT ![s] = @ + res.n]
           /\ awPos' = [awPos EXCEPT ![s] = @ + k]
           /\ awWrites' = [awWrites EXCEPT ![s] = @ + 1]
      /\ UNCHANGED <<outSrc, keyEv, keySeq, ar, arRecs, arOut, authVars>>
      /\ UNCHANGED <<mainVars, setupVars, termVars, sigVars, ctxVars, resizeVars,
                     ioVars, remoteVars, sysVars, dataVars>>

\* No key event was translated yet, and the remote side sends nothing.
InitEmu ==
    /\ InitOut({<<>>})
    /\ InitHostKey({KnownHost})
    /\ InitIdentity({GivenIdentity})
    /\ keyEv = [keyDown |-> 0, virtualKeyCode |-> 0, unicodeChar |-> 0,
                controlKeyState |-> 0]
    /\ keySeq = <<>>
    /\ ar = [i \in {"a", "b"} |-> 0]
    /\ arRecs = [i \in {"a", "b"} |-> <<>>]
    /\ arOut = [i \in {"a", "b"} |-> <<>>]

\* The unix build; a console is not involved.
UnixHost ==
    [goos |-> "unix", vtInput |-> FALSE, vtOutput |-> FALSE, vtErr |-> FALSE, dnar |-> FALSE]

\* The windows build on a console that accepts or rejects the virtual
\* terminal input flag, the virtual terminal processing flag and, with the
\* latter, DisableNewlineAutoReturn.
WindowsHosts ==
    {h \in [goos : {"windows"}, vtInput : BOOLEAN, vtOutput : BOOLEAN, vtErr : BOOLEAN,
             dnar : BOOLEAN] :
        h.dnar => (h.vtOutput \/ h.vtErr)}

\* "ls\n"
PlainInput == <<108, 115, 10>>

\* The process starts on a host of hosts with a local stdin that will deliver
\* one of inputs.
InitHost(hosts, inputs) ==
    /\ host \in hosts
    /\ stdinSrc \in inputs

Init ==
    /\ InitConf(PlainConfigs) /\ InitHost({UnixHost}, {PlainInput})
    /\ InitSession /\ InitEmu

\* ------------------------------------------------- console input emulation
\* pkg/minssh/ansi_windows.go. Bytes and UTF-16 code units are integers.
\* Virtual key codes (the iota blocks starting at vk_lbutton = 1 and
\* vk_lwin = 0x5B).
vk_back == 8
vk_tab == 9
vk_pause == 19
vk_escape == 27
vk_prior == 33
vk_next == 34
vk_end == 35
vk_home == 36
vk_left == 37
vk_up == 38
vk_right == 39
vk_down == 40
vk_insert == 45
vk_delete == 46
vk_f1 == 112
vk_f2 == 113
vk_f3 == 114
vk_f4 == 115
vk_f5 == 116
vk_f6 == 117
vk_f7 == 118
vk_f8 == 119
vk_f9 == 120
vk_f10 == 121
vk_f11 == 122
vk_f12 == 123
vk_f13 == 124

\* Control key states.
right_alt_pressed == 1
left_alt_pressed == 2
right_ctrl_pressed == 4
left_ctrl_pressed == 8
shift_pressed == 16
enhanced_key == 256

\* The bitwise AND of two naturals.
RECURSIVE BitAnd(_, _)
BitAnd(a, b) ==
    IF a = 0 \/ b = 0 THEN 0
    ELSE (a % 2) * (b % 2) + 2 * BitAnd(a \div 2, b \div 2)

\* Mutant: the letters of the right and the left arrow are exchanged.
arrowKeyMap_Swapped ==
    (vk_up :> 65) @@ (vk_down :> 66) @@ (vk_right :> 68) @@ (vk_left :> 67)
    @@ (vk_home :> 72) @@ (vk_end :> 70)

\* 'A', 'B', 'C', 'D', 'H', 'F'
arrowKeyMap ==
    (vk_up :> 65) @@ (vk_down :> 66) @@ (vk_right :> 67) @@ (vk_left :> 68)
    @@ (vk_home :> 72) @@ (vk_end :> 70)

\* 'P', 'Q', 'R', 'S'
f1ToF4KeyMap == (vk_f1 :> 80) @@ (vk_f2 :> 81) @@ (vk_f3 :> 82) @@ (vk_f4 :> 83)

\* "15", "17", "18", "19", "20", "21", "23", "24"
f5toF12KeyMap ==
    (vk_f5 :> <<49, 53>>) @@ (vk_f6 :> <<49, 55>>) @@ (vk_f7 :> <<49, 56>>)
    @@ (vk_f8 :> <<49, 57>>) @@ (vk_f9 :> <<50, 48>>) @@ (vk_f10 :> <<50, 49>>)
    @@ (vk_f11 :> <<50, 51>>) @@ (vk_f12 :> <<50, 52>>)

\* A nil []byte; every sequence toAnsiSeq returns otherwise is non-empty.
NilSeq == <<>>

CtrlPressed(k) ==
    BitAnd(k.controlKeyState, left_ctrl_pressed + right_ctrl_pressed) # 0

AltPressed(k) ==
    BitAnd(k.controlKeyState, left_alt_pressed + right_alt_pressed) # 0

\* toAnsiSeq: the switch on the virtual key code, then the Alt+character rule.
toAnsiSeq(k) ==
    LET vk == k.virtualKeyCode IN
    IF vk \in DOMAIN arrowKeyMap
    THEN IF CtrlPressed(k)
         THEN <<27, 91, 49, 59, 53, arrowKeyMap[vk]>>
         ELSE <<27, 91, arrowKeyMap[vk]>>
    ELSE IF vk = vk_back
    THEN IF AltPressed(k) /\ ~CtrlPressed(k) THEN <<27, 8>> ELSE <<127>>
    ELSE IF vk = vk_pause THEN <<26>>
    ELSE IF vk = vk_escape THEN <<27>>
    ELSE IF vk = vk_insert THEN <<27, 91, 50, 126>>
    ELSE IF vk = vk_delete THEN <<27, 91, 51, 126>>
    ELSE IF vk = vk_prior THEN <<27, 91, 53, 126>>
    ELSE IF vk = vk_next THEN <<27, 91, 54, 126>>
    ELSE IF vk \in DOMAIN f1ToF4KeyMap THEN <<27, 79, f1ToF4KeyMap[vk]>>
    ELSE IF vk \in DOMAIN f5toF12KeyMap
    THEN <<27, 91, f5toF12KeyMap[vk][1], f5toF12KeyMap[vk][2], 126>>
    ELSE IF /\ 32 <= k.unicodeChar /\ k.unicodeChar <= 126
            /\ AltPressed(k) /\ ~CtrlPressed(k)
    THEN <<27, k.unicodeChar>>
    ELSE NilSeq

\* The key events the console delivers to the translator: every key of the
\* tables, some keys outside them, the modifier states alone and combined,
\* and characters at and around the limits of the printable range.
KeyCodes ==
    DOMAIN arrowKeyMap \cup DOMAIN f1ToF4KeyMap \cup DOMAIN f5toF12KeyMap
    \cup {vk_back, vk_pause, vk_escape, vk_insert, vk_delete, vk_prior, vk_next}
    \cup {vk_tab, 65, vk_f13}

KeyStates ==
    {0, right_alt_pressed, left_alt_pressed, right_ctrl_pressed,
     left_ctrl_pressed, shift_pressed,
     left_alt_pressed + left_ctrl_pressed,
     enhanced_key + right_ctrl_pressed}

KeyChars == {0, 8, 31, 32, 126, 127}

KeyEvents ==
    [keyDown : {1}, virtualKeyCode : KeyCodes, unicodeChar : KeyChars,
     controlKeyState : KeyStates]

\* One call of toAnsiSeq for a key-down event.
ToAnsiSeq ==
    /\ \E k \in KeyEvents :
         /\ keyEv' = k
         /\ keySeq' = toAnsiSeq(k)
    /\ UNCHANGED <<ar, arRecs, arOut, outVars, authVars>>
    /\ UNCHANGED <<mainVars, setupVars, termVars, sigVars, ctxVars, resizeVars,
                   ioVars, remoteVars, sysVars, dataVars>>

\* unicode/utf16 and unicode/utf8, as ansiReader.Read uses them.
surr1 == 55296
surr2 == 56320
surr3 == 57344
replacementChar == 65533

\* utf16.IsSurrogate
IsSurrogate(r) == surr1 <= r /\ r < surr3

\* utf16.DecodeRune
DecodeRune(r1, r2) ==
    IF surr1 <= r1 /\ r1 < surr2 /\ surr2 <= r2 /\ r2 < surr3
    THEN (r1 - surr1) * 1024 + (r2 - surr2) + 65536
    ELSE replacementChar

\* utf8.EncodeRune: the bytes of r; a surrogate or a value above U+10FFFF is
\* encoded as U+FFFD.
EncodeRune(r) ==
    LET c == IF r > 1114111 \/ IsSurrogate(r) THEN replacementChar ELSE r IN
    IF c < 128 THEN <<c>>
    ELSE IF c < 2048 THEN <<192 + (c \div 64), 128 + (c % 64)>>
    ELSE IF c < 65536
    THEN <<224 + (c \div 4096), 128 + ((c \div 64) % 64), 128 + (c % 64)>>
    ELSE <<240 + (c \div 262144), 128 + ((c \div 4096) % 64),
           128 + ((c \div 64) % 64), 128 + (c % 64)>>

\* Input record event types.
keyEvent == 1
mouseEvent == 2
windowBufferSizeEvent == 4
menuEvent == 8
focusEvent == 16

\* Mutant: the pending surrogate half is handled before the key is looked up
\* in the table.
readRecord_HalfFirst(rec, st) ==
    IF rec.eventType # keyEvent \/ rec.event.keyDown # 1 THEN st
    ELSE IF st.lastRune # 0
    THEN [b |-> st.b \o EncodeRune(DecodeRune(st.lastRune, rec.event.unicodeChar)),
          lastRune |-> 0]
    ELSE IF toAnsiSeq(rec.event) # NilSeq
    THEN [st EXCEPT !.b = st.b \o toAnsiSeq(rec.event)]
    ELSE IF IsSurrogate(rec.event.unicodeChar)
    THEN [st EXCEPT !.lastRune = rec.event.unicodeChar]
    ELSE IF rec.event.unicodeChar = 0 THEN st
    ELSE [st EXCEPT !.b = st.b \o EncodeRune(rec.event.unicodeChar)]

\* The body of Read's loop for one input record; st is the state of the loop,
\* [b: the bytes appended so far, lastRune: ar.lastRune].
readRecord(rec, st) ==
    IF rec.eventType # keyEvent THEN st
    ELSE IF rec.event.keyDown # 1 THEN st
    ELSE IF toAnsiSeq(rec.event) # NilSeq
    THEN [st EXCEPT !.b = st.b \o toAnsiSeq(rec.event)]
    ELSE LET uc == rec.event.unicodeChar
             r == IF st.lastRune # 0 THEN DecodeRune(st.lastRune, uc) ELSE uc
         IN  IF st.lastRune = 0 /\ IsSurrogate(uc)
             THEN [st EXCEPT !.lastRune = uc]
             ELSE IF r = 0
             THEN [st EXCEPT !.lastRune = 0]
             ELSE [b |-> st.b \o EncodeRune(r), lastRune |-> 0]

\* ansiReader.Read for the records one readConsoleInput call returned (one or
\* two, never none here): the bytes put into b and the reader's lastRune
\* afterwards.
RECURSIVE readLoop(_, _)
readLoop(records, st) ==
    IF records = <<>> THEN st
    ELSE readLoop(Tail(records), readRecord(Head(records), st))

Read(lastRune, records) == readLoop(records, [b |-> <<>>, lastRune |-> lastRune])

\* Mutant: a Read that produced no byte reports the end of the stream.
ReadErr_NoByteIsEOF(records, b) == IF b = <<>> THEN "EOF" ELSE NoErr

\* The error Read returns after a readConsoleInput call that succeeded with
\* the records given and produced the bytes b: io.EOF if nr == 0, else nil.
ReadErr(records, b) == IF records = <<>> THEN "EOF" ELSE NoErr

\* Input records: key-down events of a table key, an Alt+character, a plain
\* character, a key without a character, the two halves of U+1F600, and a
\* key-up and a mouse event.
KeyDown(vk, uc, cks) ==
    [eventType |-> keyEvent,
     event |-> [keyDown |-> 1, virtualKeyCode |-> vk, unicodeChar |-> uc,
                controlKeyState |-> cks]]

HighHalf == KeyDown(0, 55357, 0)

LowHalf == KeyDown(0, 56832, 0)

InputRecords ==
    {KeyDown(vk_right, 0, left_ctrl_pressed), KeyDown(vk_back, 8, 0),
     KeyDown(65, 97, left_alt_pressed), KeyDown(65, 97, 0),
     KeyDown(16, 0, shift_pressed), HighHalf, LowHalf,
     [eventType |-> keyEvent,
      event |-> [keyDown |-> 0, virtualKeyCode |-> 65, unicodeChar |-> 97,
                 controlKeyState |-> 0]],
     [eventType |-> mouseEvent,
      event |-> [keyDown |-> 0, virtualKeyCode |-> 0, unicodeChar |-> 0,
                 controlKeyState |-> 0]]}

\* The key-up record of the key a, and a record of an event type that carries
\* no key.
KeyUp ==
    [eventType |-> keyEvent,
     event |-> [keyDown |-> 0, virtualKeyCode |-> 65, unicodeChar |-> 97,
                controlKeyState |-> 0]]

OtherEvent(ty) ==
    [eventType |-> ty,
     event |-> [keyDown |-> 0, virtualKeyCode |-> 0, unicodeChar |-> 0,
                controlKeyState |-> 0]]

\* What one readConsoleInput call returns into records := make([]inputRecord, 2).
ConsoleReads ==
    {<<r>> : r \in InputRecords}
    \cup {<<r1, r2>> : r1 \in {HighHalf, LowHalf, KeyDown(vk_right, 0, left_ctrl_pressed)},
                       r2 \in InputRecords}

\* Two ansiReader instances, each with its own history of Read calls.
Readers == {"a", "b"}

ReaderRead ==
    /\ \E i \in Readers, recs \in ConsoleReads :
         LET res == Read(ar[i], recs) IN
         /\ ar' = [ar EXCEPT ![i] = res.lastRune]
         /\ arRecs' = [arRecs EXCEPT ![i] = recs]
         /\ arOut' = [arOut EXCEPT ![i] = res.b]
    /\ UNCHANGED <<keyEv, keySeq, outVars, authVars>>
    /\ UNCHANGED <<mainVars, setupVars, termVars, sigVars, ctxVars, resizeVars,
                   ioVars, remoteVars, sysVars, dataVars>>

\* ------------------------------------------------- console modes (windows)
\* pkg/minssh/minssh_windows.go. Console modes are flag words.
enableProcessedInput == 1
enableLineInput == 2
enableEchoInput == 4
enableVirtualTerminalInput == 512
enableVirtualTerminalProcessing == 4
disableNewlineAutoReturn == 8

BitOr(a, b) == a + b - BitAnd(a, b)

AndNot(a, b) == a - BitAnd(a, b)

Streams == <<"stdin", "stdout", "stderr">>

\* Whether SetConsoleMode accepts a mode on a stream of this host: a console
\* without virtual-terminal support rejects a mode with a virtual-terminal
\* flag; stdout and stderr may be different consoles (one of them redirected
\* to another console handle).
Accepts(h, fd, m) ==
    IF fd = "stdin"
    THEN BitAnd(m, enableVirtualTerminalInput) = 0 \/ h.vtInput
    ELSE /\ \/ BitAnd(m, enableVirtualTerminalProcessing) = 0
            \/ IF fd = "stdout" THEN h.vtOutput ELSE h.vtErr
         /\ BitAnd(m, disableNewlineAutoReturn) = 0 \/ h.dnar

\* One setConsoleMode call in the state st = [err, sys, con, log]: the mode
\* of the stream changes when the call is accepted, and the call is logged.
setConsoleMode(st, fd, m, ok) ==
    [st EXCEPT !.con = IF ok THEN [st.con EXCEPT ![fd] = m] ELSE st.con,
               !.log = Append(st.log, [fd |-> fd, mode |-> m, ok |-> ok])]

\* changeLocalTerminalMode (windows), lines 250-263: the three getConsoleMode
\* calls; getOk says which of them succeed.
getModes(st, getOk) ==
    IF ~getOk["stdin"]
    THEN [st EXCEPT !.err = "failed:getConsoleMode"]
    ELSE IF ~getOk["stdout"]
    THEN [st EXCEPT !.err = "failed:getConsoleMode",
                    !.sys.stdinMode = st.con["stdin"]]
    ELSE IF ~getOk["stderr"]
    THEN [st EXCEPT !.err = "failed:getConsoleMode",
                    !.sys.stdinMode = st.con["stdin"],
                    !.sys.stdoutMode = st.con["stdout"]]
    ELSE [st EXCEPT !.sys.stdinMode = st.con["stdin"],
                    !.sys.stdoutMode = st.con["stdout"],
                    !.sys.stderrMode = st.con["stderr"]]

\* Mutant: the fallback to the input emulator is taken without trying the
\* mode with EnableVirtualTerminalInput.
setStdinMode_NoVT(st, h, rawOk) ==
    LET newBaseMode == AndNot(st.sys.stdinMode,
            enableEchoInput + enableProcessedInput + enableLineInput)
        s2 == setConsoleMode(st, "stdin", newBaseMode, rawOk)
    IN  IF ~rawOk THEN [s2 EXCEPT !.err = "failed:setConsoleMode"]
        ELSE [s2 EXCEPT !.sys.emuStdin = TRUE]

\* Lines 265-276: stdin with EnableVirtualTerminalInput first, then without.
setStdinMode(st, h, rawOk) ==
    LET newBaseMode == AndNot(st.sys.stdinMode,
            enableEchoInput + enableProcessedInput + enableLineInput)
        newMode == BitOr(newBaseMode, enableVirtualTerminalInput)
        s1 == setConsoleMode(st, "stdin", newMode, Accepts(h, "stdin", newMode))
        s2 == setConsoleMode(s1, "stdin", newBaseMode, rawOk)
    IN  IF Accepts(h, "stdin", newMode) THEN s1
        ELSE IF ~rawOk THEN [s2 EXCEPT !.err = "failed:setConsoleMode"]
        ELSE [s2 EXCEPT !.sys.emuStdin = TRUE]

\* Lines 278-291: stdout with EnableVirtualTerminalProcessing and
\* DisableNewlineAutoReturn, then with the former alone, then emulation.
setStdoutMode(st, h) ==
    LET m1 == BitOr(st.sys.stdoutMode,
                    enableVirtualTerminalProcessing + disableNewlineAutoReturn)
        m2 == BitOr(st.sys.stdoutMode, enableVirtualTerminalProcessing)
        s1 == setConsoleMode(st, "stdout", m1, Accepts(h, "stdout", m1))
        s2 == setConsoleMode(s1, "stdout", m2, Accepts(h, "stdout", m2))
    IN  IF Accepts(h, "stdout", m1) THEN s1
        ELSE IF Accepts(h, "stdout", m2) THEN s2
        ELSE [s2 EXCEPT !.sys.stdoutMode = 0, !.sys.emuStdout = TRUE]

\* Lines 293-309: stderr; its new mode is built from ms.sys.stdoutMode, and a
\* rejection is only logged.
setStderrMode(st, h) ==
    LET m1 == BitOr(st.sys.stdoutMode,
                    enableVirtualTerminalProcessing + disableNewlineAutoReturn)
        m2 == BitOr(st.sys.stdoutMode, enableVirtualTerminalProcessing)
        s1 == setConsoleMode(st, "stderr", m1, Accepts(h, "stderr", m1))
        s2 == setConsoleMode(s1, "stderr", m2, Accepts(h, "stderr", m2))
    IN  IF st.sys.emuStdout THEN [st EXCEPT !.sys.stderrMode = 0]
        ELSE IF Accepts(h, "stderr", m1) THEN s1
        ELSE s2

\* Mutant: stdout and stderr are set before stdin.
changeLocalTerminalMode_OutputFirst(s0, con, h, getOk, rawOk) ==
    LET st0 == [err |-> NoErr, sys |-> s0, con |-> con, log |-> <<>>]
        st1 == getModes(st0, getOk)
    IN  IF st1.err # NoErr THEN st1
        ELSE setStdinMode(setStderrMode(setStdoutMode(st1, h), h), h, rawOk)

\* changeLocalTerminalMode (windows) on the console con of host h: the error
\* returned, ms.sys and the console afterwards, and the setConsoleMode calls.
changeLocalTerminalMode(s0, con, h, getOk, rawOk) ==
    LET st0 == [err |-> NoErr, sys |-> s0, con |-> con, log |-> <<>>]
        st1 == getModes(st0, getOk)
        st2 == setStdinMode(st1, h, rawOk)
    IN  IF st1.err # NoErr THEN st1
        ELSE IF st2.err # NoErr THEN st2
        ELSE setStderrMode(setStdoutMode(st2, h), h)

\* Mutant: the restoration stops at the first stream that fails.
restoreStream_StopOnError(st, fd, saved, ok) ==
    IF saved > 0 /\ st.err = NoErr
    THEN [setConsoleMode(st, fd, saved, ok) EXCEPT
            !.err = IF ok THEN st.err ELSE "failed:restore"]
    ELSE st

\* Lines 316-324: one stream of restoreLocalTerminalMode: a saved mode above
\* zero is set again; a failure is remembered for the error message.
restoreStream(st, fd, saved, ok) ==
    IF saved > 0
    THEN [setConsoleMode(st, fd, saved, ok) EXCEPT
            !.err = IF ok THEN st.err ELSE "failed:restore"]
    ELSE st

\* Mutant: every stream is set to the value in ms.sys, captured or not.
restoreLocalTerminalMode_Unguarded(s0, con, restOk) ==
    LET st0 == [err |-> NoErr, sys |-> s0, con |-> con, log |-> <<>>]
        set(st, fd, saved) ==
            [setConsoleMode(st, fd, saved, restOk[fd]) EXCEPT
                !.err = IF restOk[fd] THEN st.err ELSE "failed:restore"]
    IN  set(set(set(st0, "stdin", s0.stdinMode), "stdout", s0.stdoutMode),
            "stderr", s0.stderrMode)

\* restoreLocalTerminalMode (windows); restOk says which calls succeed.
restoreLocalTerminalMode(s0, con, restOk) ==
    LET st0 == [err |-> NoErr, sys |-> s0, con |-> con, log |-> <<>>]
        st1 == restoreStream(st0, "stdin", s0.stdinMode, restOk["stdin"])
        st2 == restoreStream(st1, "stdout", s0.stdoutMode, restOk["stdout"])
    IN  restoreStream(st2, "stderr", s0.stderrMode, restOk["stderr"])

StreamAnswers == [{"stdin", "stdout", "stderr"} -> BOOLEAN]

\* ------------------------------------------------------- signal delivery
\* os/signal: a signal with a registered channel is put into every registered
\* channel that has room (never blocking); with no channel registered the
\* runtime's default action for SIGHUP/SIGINT/SIGTERM/SIGQUIT ends the process.
Deliver(n) == IF n < 1 THEN 1 ELSE n

\* The process is killed: its goroutines, channels and memory are gone. What
\* stays is the world outside it: the terminal, the window, the remote side.
ProcessGone ==
    /\ pcMain' = "killed"
    /\ mode' = "none" /\ retErr' = NoErr /\ setupLog' = <<>> /\ setupWH' = <<0, 0>>
    /\ origMode' = "nil"
    /\ pcHandler' = "none" /\ promptReg' = FALSE /\ promptC' = 0
    /\ sessReg' = FALSE /\ sigC' = 0
    /\ ctxDone' = FALSE /\ wg' = 0 /\ nGotSignal' = 0 /\ nExitMsg' = 0
    /\ bothReady' = FALSE
    /\ winchReg' = FALSE /\ winchC' = 0 /\ ch' = 0 /\ chCloses' = 0 /\ chSends' = 0
    /\ pcWatcher' = "notstarted" /\ pcPump' = "notstarted"
    /\ lastWH' = <<0, 0>> /\ newWH' = <<0, 0>> /\ nSends' = 0 /\ lastFailed' = FALSE
    /\ pcStdin' = "notstarted" /\ pcStdout' = "notstarted" /\ pcStderr' = "notstarted"
    /\ nInput' = 0 /\ nWritten' = 0 /\ stdinCloses' = 0 /\ stdinStarts' = 0
    /\ stdinEnd' = "none"
    /\ pcWaiter' = "notstarted" /\ waitErr' = NoErr
    /\ UNCHANGED <<conf, caller, exitCode, closeLog, termMode, prompted, winSize,
                   nResize, remoteWH, remote, exitMsgs, conn>>

TermSignal ==
    /\ Alive
    /\ nSignals < MaxSignals
    /\ nSignals' = nSignals + 1
    /\ IF promptReg \/ sessReg
       THEN /\ promptC' = IF promptReg /\ pcHandler # "gone"
                          THEN Deliver(promptC) ELSE promptC
            /\ sigC' = IF sessReg THEN Deliver(sigC) ELSE sigC
            /\ UNCHANGED <<prompted, pcHandler, promptReg, sessReg>>
            /\ UNCHANGED <<mainVars, setupVars, termVars, ctxVars, resizeVars,
                           ioVars, remoteVars>>
       ELSE ProcessGone
    /\ UNCHANGED <<sysVars, dataVars, emuVars>>

\* ------------------------------------------------------------- app.run
\* main.go: the terminal check is made only for an interactive session with a
\* pty; a failed check prints the error and exits with status 1.
NeedsTerminalCheck(c) == ~c.command /\ ~c.noTTY

AppIsTerminal ==
    /\ pcMain = "isTerminal"
    /\ \E ok \in BOOLEAN :
         IF caller = "app" /\ NeedsTerminalCheck(conf) /\ ~ok
         THEN pcMain' = "exited" /\ exitCode' = 1
         ELSE pcMain' = "open" /\ UNCHANGED exitCode
    /\ UNCHANGED <<conf, caller, mode, retErr, setupLog, closeLog>>
    /\ UNCHANGED <<setupVars, termVars, sigVars, ctxVars, resizeVars, ioVars, remoteVars>>
    /\ UNCHANGED <<sysVars, dataVars, emuVars>>

\* Open: the authentication callbacks may show a prompt (readPassword,
\* askAddingUnknownHostKey, askDecodingEncryptedKey). Each prompt starts a
\* goroutine that registers a signal channel and waits for a signal or stopC.
OpenPromptBegin ==
    /\ pcMain = "open"
    /\ ~prompted
    /\ prompted' = TRUE
    /\ pcHandler' = "notify"
    /\ pcMain' = "prompting"
    /\ UNCHANGED <<conf, caller, mode, retErr, exitCode, setupLog, closeLog>>
    /\ UNCHANGED <<promptReg, promptC, sessReg, sigC, nSignals>>
    /\ UNCHANGED <<setupVars, termVars, ctxVars, resizeVars, ioVars, remoteVars>>
    /\ UNCHANGED <<sysVars, dataVars, emuVars>>

\* The prompt returns: the deferred close(stopC) runs.
OpenPromptEnd ==
    /\ pcMain = "prompting"
    /\ pcMain' = "open"
    /\ UNCHANGED <<conf, caller, mode, retErr, exitCode, setupLog, closeLog>>
    /\ UNCHANGED <<setupVars, termVars, sigVars, ctxVars, resizeVars, ioVars, remoteVars>>
    /\ UNCHANGED <<sysVars, dataVars, emuVars>>

stopCClosed == prompted /\ pcMain # "prompting"

\* signal.Notify(sigC, SIGHUP, SIGINT, SIGTERM, SIGQUIT) in the handler goroutine.
HandlerNotify ==
    /\ Alive
    /\ pcHandler = "notify"
    /\ pcHandler' = "select"
    /\ promptReg' = TRUE
    /\ UNCHANGED <<prompted, promptC, sessReg, sigC, nSignals>>
    /\ UNCHANGED <<mainVars, setupVars, termVars, ctxVars, resizeVars, ioVars, remoteVars>>
    /\ UNCHANGED <<sysVars, dataVars, emuVars>>

\* select { case <-sigC: [terminal.Restore;] os.Exit(1); case <-stopC: }
\* The channel is never unregistered (no signal.Stop). readPassword's handler
\* restores the terminal state captured before the prompt, the other two do not.
HandlerSelect ==
    /\ Alive
    /\ pcHandler = "select"
    /\ \/ /\ promptC > 0
          /\ promptC' = promptC - 1
          /\ pcMain' = "exited"
          /\ exitCode' = 1
          /\ pcHandler' = "gone"
          /\ \E restores \in BOOLEAN :
               termMode' = IF restores THEN "cooked" ELSE termMode
          /\ UNCHANGED origMode
       \/ /\ stopCClosed
          /\ pcHandler' = "gone"
          /\ UNCHANGED <<pcMain, exitCode, promptC, termVars>>
    /\ UNCHANGED <<conf, caller, mode, retErr, setupLog, closeLog>>
    /\ UNCHANGED <<prompted, promptReg, sessReg, sigC, nSignals>>
    /\ UNCHANGED <<setupVars, ctxVars, resizeVars, ioVars, remoteVars>>
    /\ UNCHANGED <<sysVars, dataVars, emuVars>>

\* if ms.sess, err = ms.conn.NewSession(); err != nil { return nil, ... }:
\* ms.conn after the call, whether or not it succeeded.
AfterNewSession(ok) == "open"

\* ssh.Dial and conn.NewSession: on an error Open returns it and app.run exits
\* with status 1 before the deferred Close is installed.
OpenFinish ==
    /\ pcMain = "open"
    /\ pcHandler \in {"none", "gone"}
    /\ \E dialed \in BOOLEAN, ok \in BOOLEAN :
         /\ ok => dialed
         /\ conn' = IF dialed THEN AfterNewSession(ok) ELSE conn
         /\ IF ok THEN pcMain' = "run" /\ UNCHANGED exitCode
                  ELSE pcMain' = "exited" /\ exitCode' = 1
    /\ UNCHANGED <<conf, caller, mode, retErr, setupLog, closeLog, setupWH>>
    /\ UNCHANGED <<termVars, sigVars, ctxVars, resizeVars, ioVars, remoteVars>>
    /\ UNCHANGED <<sysVars, dataVars, emuVars>>

\* MinSSH.Run: a non-empty Command runs RunCommand, otherwise RunInteractive.
RunTarget(c) == IF c.command THEN "command" ELSE "interactive"

FirstPc(m) == IF m = "interactive" THEN "prepareRemote" ELSE "batchWatch"

Run ==
    /\ pcMain = "run"
    /\ caller = "app"
    /\ mode' = RunTarget(conf)
    /\ pcMain' = FirstPc(RunTarget(conf))
    /\ UNCHANGED <<conf, caller, retErr, exitCode, setupLog, closeLog>>
    /\ UNCHANGED <<setupVars, termVars, sigVars, ctxVars, resizeVars, ioVars, remoteVars>>
    /\ UNCHANGED <<sysVars, dataVars, emuVars>>

\* A library caller invokes the exported RunSubsystem directly.
CallRunSubsystem ==
    /\ pcMain = "run"
    /\ caller = "lib"
    /\ mode' = "subsystem"
    /\ pcMain' = FirstPc("subsystem")
    /\ UNCHANGED <<conf, caller, retErr, exitCode, setupLog, closeLog>>
    /\ UNCHANGED <<setupVars, termVars, sigVars, ctxVars, resizeVars, ioVars, remoteVars>>
    /\ UNCHANGED <<sysVars, dataVars, emuVars>>

\* ------------------------------------------------- prepareRemoteTerminal
RemoteSteps == <<"getWindowSize", "RequestPty", "StdinPipe", "StdoutPipe",
                 "StderrPipe", "Shell">>

StepIndex(s) == CHOOSE i \in 1..Len(RemoteSteps) : RemoteSteps[i] = s

\* Mutant: the pty is requested whatever conf.NoTTY says.
NextStep_AlwaysPty(log, c) ==
    IF log = <<>> THEN 1 ELSE StepIndex(log[Len(log)]) + 1

\* The step prepareRemoteTerminal performs next: RequestPty is skipped when
\* conf.NoTTY is set.
NextStep(log, c) ==
    LET n == IF log = <<>> THEN 1 ELSE StepIndex(log[Len(log)]) + 1
    IN  IF RemoteSteps[n] = "RequestPty" /\ c.noTTY THEN n + 1 ELSE n

SetupErr(s) == "failed:" \o s

\* Mutant: the error of prepareRemoteTerminal is not checked.
AfterPrepareRemote_Unchecked(err) == "prepareLocal"

\* if err := ms.prepareRemoteTerminal(); err != nil { return err }
AfterPrepareRemote(err) == IF err # NoErr THEN "return" ELSE "prepareLocal"

\* One step of prepareRemoteTerminal; a failing step returns its error.
PrepareRemoteTerminal ==
    /\ pcMain = "prepareRemote"
    /\ LET s == RemoteSteps[NextStep(setupLog, conf)] IN
       \E ok \in BOOLEAN :
         /\ setupLog' = Append(setupLog, s)
         /\ setupWH' = IF s = "getWindowSize" /\ ok THEN winSize
                       ELSE IF ok /\ s # "Shell" THEN setupWH
                       ELSE <<0, 0>>
         /\ remoteWH' = IF s = "RequestPty" /\ ok THEN setupWH ELSE remoteWH
         /\ remote' = IF s = "Shell" /\ ok THEN "running" ELSE remote
         /\ retErr' = IF ok THEN NoErr ELSE SetupErr(s)
         /\ pcMain' = IF ok /\ s # "Shell"
                      THEN "prepareRemote"
                      ELSE AfterPrepareRemote(IF ok THEN NoErr ELSE SetupErr(s))
    /\ UNCHANGED <<conf, caller, mode, exitCode, closeLog, conn>>
    /\ UNCHANGED <<winSize, nResize, winchReg, winchC, ch, chCloses, chSends,
                   pcWatcher, pcPump, lastWH, newWH, nSends, lastFailed>>
    /\ UNCHANGED <<pcWaiter, waitErr>>
    /\ UNCHANGED <<termVars, sigVars, ctxVars, ioVars>>
    /\ UNCHANGED <<sysVars, dataVars, emuVars>>

\* -------------------------------------------------- prepareLocalTerminal
\* Mutant: the error of prepareLocalTerminal is not checked.
AfterPrepareLocal_Unchecked(err) == "watchSignals"

\* if err := ms.prepareLocalTerminal(); err != nil { return err }
AfterPrepareLocal(err) == IF err # NoErr THEN "return" ELSE "watchSignals"

\* changeLocalTerminalMode (unix): terminal.MakeRaw either switches stdin to
\* raw mode and returns the previous state, or fails and changes nothing.
\* changeLocalTerminalMode (windows): see above; the terminal counts as raw
\* once the mode of stdin was changed.
PrepareLocalTerminal ==
    /\ pcMain = "prepareLocal"
    /\ IF host.goos = "windows"
       THEN \E getOk \in StreamAnswers, rawOk \in BOOLEAN :
              LET res == changeLocalTerminalMode(sys, conMode, host, getOk, rawOk) IN
              /\ sys' = res.sys
              /\ conMode' = res.con
              /\ consoleLog' = consoleLog \o res.log
              /\ termMode' = IF res.con["stdin"] # conMode["stdin"] THEN "raw" ELSE termMode
              /\ origMode' = origMode
              /\ retErr' = res.err
              /\ pcMain' = AfterPrepareLocal(res.err)
       ELSE \E ok \in BOOLEAN :
              /\ termMode' = IF ok THEN "raw" ELSE termMode
              /\ origMode' = IF ok THEN "saved" ELSE "nil"
              /\ retErr' = IF ok THEN NoErr ELSE "failed:MakeRaw"
              /\ pcMain' = AfterPrepareLocal(IF ok THEN NoErr ELSE "failed:MakeRaw")
              /\ UNCHANGED <<sys, conMode, consoleLog>>
    /\ UNCHANGED <<host, dataVars>>
    /\ UNCHANGED <<conf, caller, mode, exitCode, setupLog, closeLog>>
    /\ UNCHANGED <<setupVars, sigVars, ctxVars, resizeVars, ioVars, remoteVars>>
    /\ UNCHANGED emuVars

\* ---------------------------------------------------------- RunInteractive
\* sigC := ms.watchSignals(): signal.Notify on a fresh channel of capacity 1.
WatchSignals ==
    /\ pcMain = "watchSignals"
    /\ sessReg' = TRUE
    /\ sigC' = 0
    /\ pcMain' = "invokeResize"
    /\ UNCHANGED <<conf, caller, mode, retErr, exitCode, setupLog, closeLog>>
    /\ UNCHANGED <<prompted, pcHandler, promptReg, promptC, nSignals>>
    /\ UNCHANGED <<setupVars, termVars, ctxVars, resizeVars, ioVars, remoteVars>>
    /\ UNCHANGED <<sysVars, dataVars, emuVars>>

\* ms.invokeResizeTerminal(ctx): watchTerminalResize registers SIGWINCH, adds
\* one to the wait group and starts the watcher; then one more is added and
\* the resize pump is started.
InvokeResizeTerminal ==
    /\ pcMain = "invokeResize"
    /\ winchReg' = TRUE
    /\ wg' = wg + 2
    /\ pcWatcher' = "select"
    /\ pcPump' = "init"
    /\ pcMain' = "invokePipes"
    /\ UNCHANGED <<conf, caller, mode, retErr, exitCode, setupLog, closeLog>>
    /\ UNCHANGED <<ctxDone, nGotSignal, nExitMsg, exitMsgs, bothReady>>
    /\ UNCHANGED <<winSize, nResize, winchC, ch, chCloses, chSends, lastWH, newWH,
                   nSends, lastFailed, remoteWH>>
    /\ UNCHANGED <<setupVars, termVars, sigVars, ioVars, remoteVars>>
    /\ UNCHANGED <<sysVars, dataVars, emuVars>>

\* ms.invokeInOutPipes(): three goroutines, none of them in the wait group.
InvokeInOutPipes ==
    /\ pcMain = "invokePipes"
    /\ pcStdout' = "copy"
    /\ pcStderr' = "copy"
    /\ pcStdin' = "read"
    /\ stdinStarts' = stdinStarts + 1
    /\ pcMain' = "startWaiter"
    /\ UNCHANGED <<conf, caller, mode, retErr, exitCode, setupLog, closeLog>>
    /\ UNCHANGED <<nInput, nWritten, stdinCloses, stdinEnd>>
    /\ UNCHANGED <<setupVars, termVars, sigVars, ctxVars, resizeVars, remoteVars>>
    /\ UNCHANGED <<sysVars, dataVars, emuVars>>

\* go func() { sessC <- ms.sess.Wait() }()
StartWaiter ==
    /\ pcMain = "startWaiter"
    /\ pcWaiter' = "call"
    /\ pcMain' = "select"
    /\ UNCHANGED <<conf, caller, mode, retErr, exitCode, setupLog, closeLog>>
    /\ UNCHANGED <<waitErr, remote>>
    /\ UNCHANGED <<setupVars, termVars, sigVars, ctxVars, resizeVars, ioVars>>
    /\ UNCHANGED <<sysVars, dataVars, emuVars>>

\* select { case <-sigC: "got signal"; case err := <-sessC: printExitMessage }
\* sessC is unbuffered: the receive is a rendezvous with the waiter's send.
\* Mutant: the select sits in a loop and is entered again.
AfterSelect_Loop == "select"

\* After either case the method returns nil and the deferred function runs.
AfterSelect == "defer"

SelectSignal ==
    /\ pcMain = "select"
    /\ sigC > 0
    /\ sigC' = sigC - 1
    /\ nGotSignal' = nGotSignal + 1
    /\ bothReady' = (pcWaiter = "send")
    /\ pcMain' = AfterSelect
    /\ UNCHANGED <<conf, caller, mode, retErr, exitCode, setupLog, closeLog>>
    /\ UNCHANGED <<prompted, pcHandler, promptReg, promptC, sessReg, nSignals>>
    /\ UNCHANGED <<ctxDone, wg, nExitMsg, exitMsgs>>
    /\ UNCHANGED <<setupVars, termVars, resizeVars, ioVars, remoteVars>>
    /\ UNCHANGED <<sysVars, dataVars, emuVars>>

\* printExitMessage: what it prints for the error received from sessC. The
\* text after "ssh connection to <host> closed " is kept; the message for nil
\* goes through directedPrintf, which prints nothing in quiet mode.
directedPrintf(quietMode, stringToPrint) ==
    IF ~quietMode THEN <<stringToPrint>> ELSE <<>>

\* Mutant: the type switch is lost, every error prints the same text.
printExitMessage_NoSwitch(err, quietMode) ==
    IF err # NoErr
    THEN <<"with error">>
    ELSE directedPrintf(quietMode, "successfully")

printExitMessage(err, quietMode) ==
    IF err # NoErr
    THEN CASE err = "ExitMissingError" -> <<"but remote didn't send exit status">>
           [] err = "ExitError" -> <<"with error">>
           [] OTHER -> <<"with unknown error">>
    ELSE directedPrintf(quietMode, "successfully")

\* Mutant: the end of the stdout pump also wakes the select.
sessCReady_PumpEnded == pcWaiter = "send" \/ pcStdout = "done"

\* case err := <-sessC is ready when the waiter stands at its send on sessC.
sessCReady == pcWaiter = "send"

\* Mutant: the error received from sessC is returned to the caller.
RunResult_Propagated(err) == err

\* case err := <-sessC: ms.printExitMessage(err) ... return nil: the value
\* RunInteractive, RunCommand and RunSubsystem return after the select.
RunResult(err) == NoErr

SelectExit ==
    /\ pcMain = "select"
    /\ sessCReady
    /\ pcWaiter' = "done"
    /\ nExitMsg' = nExitMsg + 1
    /\ exitMsgs' = exitMsgs \o printExitMessage(waitErr, conf.quiet)
    /\ bothReady' = (sigC > 0)
    /\ pcMain' = AfterSelect
    /\ retErr' = RunResult(waitErr)
    /\ UNCHANGED <<conf, caller, mode, exitCode, setupLog, closeLog>>
    /\ UNCHANGED <<waitErr, remote>>
    /\ UNCHANGED <<ctxDone, wg, nGotSignal>>
    /\ UNCHANGED <<setupVars, termVars, sigVars, resizeVars, ioVars>>
    /\ UNCHANGED <<sysVars, dataVars, emuVars>>

\* The deferred function: signal.Stop(sigC); cancel(); then ms.wg.Wait().
\* RunCommand and RunSubsystem defer signal.Stop(sigC) alone.
AfterDefer(m) == IF m = "interactive" THEN "deferWait" ELSE "return"

Defer ==
    /\ pcMain = "defer"
    /\ sessReg' = FALSE
    /\ sigC' = 0
    /\ ctxDone' = (mode = "interactive")
    /\ pcMain' = AfterDefer(mode)
    /\ UNCHANGED <<conf, caller, mode, retErr, exitCode, setupLog, closeLog>>
    /\ UNCHANGED <<prompted, pcHandler, promptReg, promptC, nSignals>>
    /\ UNCHANGED <<wg, nGotSignal, nExitMsg, exitMsgs, bothReady>>
    /\ UNCHANGED <<setupVars, termVars, resizeVars, ioVars, remoteVars>>
    /\ UNCHANGED <<sysVars, dataVars, emuVars>>

DeferWait ==
    /\ pcMain = "deferWait"
    /\ wg = 0
    /\ pcMain' = "return"
    /\ UNCHANGED <<conf, caller, mode, retErr, exitCode, setupLog, closeLog>>
    /\ UNCHANGED <<setupVars, termVars, sigVars, ctxVars, resizeVars, ioVars, remoteVars>>
    /\ UNCHANGED <<sysVars, dataVars, emuVars>>

\* ------------------------------------------------ RunCommand, RunSubsystem
\* sigC := ms.watchSignals() of RunCommand and RunSubsystem.
BatchWatchSignals ==
    /\ pcMain = "batchWatch"
    /\ sessReg' = TRUE
    /\ sigC' = 0
    /\ pcMain' = "batchGo"
    /\ UNCHANGED <<conf, caller, mode, retErr, exitCode, setupLog, closeLog>>
    /\ UNCHANGED <<prompted, pcHandler, promptReg, promptC, nSignals>>
    /\ UNCHANGED <<setupVars, termVars, ctxVars, resizeVars, ioVars, remoteVars>>
    /\ UNCHANGED <<sysVars, dataVars, emuVars>>

\* go func() { sessC <- ms.sess.Run(cmd) }()  /  sessC <- ms.sess.RequestSubsystem(cmd)
BatchGo ==
    /\ pcMain = "batchGo"
    /\ pcWaiter' = "call"
    /\ pcMain' = "select"
    /\ UNCHANGED <<conf, caller, mode, retErr, exitCode, setupLog, closeLog>>
    /\ UNCHANGED <<waitErr, remote>>
    /\ UNCHANGED <<setupVars, termVars, sigVars, ctxVars, resizeVars, ioVars>>
    /\ UNCHANGED <<sysVars, dataVars, emuVars>>

\* ------------------------------------------------------------ exit waiter
\* The value sent on sessC. Waiting for the remote program's end gives nil
\* (exit status 0), *ssh.ExitError (another status or a signal),
\* *ssh.ExitMissingError (no status was sent) or another error (I/O).
WaitResults == {NoErr, "ExitError", "ExitMissingError", "failed:wait"}

\* What the goroutine's call waits for before it returns.
\*   sess.Wait()               returns when the remote shell has exited;
\*   sess.Run(cmd)             starts cmd and returns when it has exited
\*                             (or at once when the start is refused);
\*   sess.RequestSubsystem(n)  returns when the request was answered.
CallWaitsForExit(m) == m \in {"interactive", "command"}

\* The remote program is started by the call (Run, RequestSubsystem); the
\* interactive shell was started by prepareRemoteTerminal.
WaiterStart ==
    /\ Alive
    /\ pcWaiter = "call"
    /\ mode \in {"command", "subsystem"}
    /\ remote = "none"
    /\ \E ok \in BOOLEAN :
         IF ok
         THEN /\ remote' = "running"
              /\ UNCHANGED <<pcWaiter, waitErr>>
         ELSE /\ waitErr' = "failed:start"
              /\ pcWaiter' = "send"
              /\ UNCHANGED remote
    /\ UNCHANGED <<mainVars, setupVars, termVars, sigVars, ctxVars, resizeVars, ioVars>>
    /\ UNCHANGED <<sysVars, dataVars, emuVars>>

WaiterReturn ==
    /\ Alive
    /\ pcWaiter = "call"
    /\ IF CallWaitsForExit(mode)
       THEN /\ remote = "exited"
            /\ waitErr' \in WaitResults
       ELSE /\ remote = "running"
            /\ waitErr' = NoErr
    /\ pcWaiter' = "send"
    /\ UNCHANGED remote
    /\ UNCHANGED <<mainVars, setupVars, termVars, sigVars, ctxVars, resizeVars, ioVars>>
    /\ UNCHANGED <<sysVars, dataVars, emuVars>>

\* The remote shell, command or subsystem ends.
RemoteExit ==
    /\ Alive
    /\ remote = "running"
    /\ remote' = "exited"
    /\ UNCHANGED <<pcWaiter, waitErr>>
    /\ UNCHANGED <<mainVars, setupVars, termVars, sigVars, ctxVars, resizeVars, ioVars>>
    /\ UNCHANGED <<sysVars, dataVars, emuVars>>

\* ---------------------------------------------------------- resize watcher
\* The window changes (or a SIGWINCH arrives without a change): a registered
\* SIGWINCH is buffered in the watcher's signal channel, capacity 1.
WinResize ==
    /\ Alive
    /\ nResize < MaxResize
    /\ nResize' = nResize + 1
    /\ winSize' \in Sizes
    /\ winchC' = IF winchReg THEN Deliver(winchC) ELSE winchC
    /\ UNCHANGED <<winchReg, ch, chCloses, chSends, pcWatcher, pcPump, lastWH, newWH,
                   nSends, lastFailed, remoteWH>>
    /\ UNCHANGED <<mainVars, setupVars, termVars, sigVars, ctxVars, ioVars, remoteVars>>
    /\ UNCHANGED <<sysVars, dataVars, emuVars>>

\* watchTerminalResize: select { case <-ctx.Done(): return; case <-sigC: ... }
\* The deferred function resets SIGWINCH, closes ch and leaves the wait group.
WatcherDone ==
    /\ Alive
    /\ pcWatcher = "select"
    /\ ctxDone
    /\ winchReg' = FALSE
    /\ chCloses' = chCloses + 1
    /\ wg' = wg - 1
    /\ pcWatcher' = "done"
    /\ UNCHANGED <<ctxDone, nGotSignal, nExitMsg, exitMsgs, bothReady>>
    /\ UNCHANGED <<winSize, nResize, winchC, ch, chSends, pcPump, lastWH, newWH,
                   nSends, lastFailed, remoteWH>>
    /\ UNCHANGED <<mainVars, setupVars, termVars, sigVars, ioVars, remoteVars>>
    /\ UNCHANGED <<sysVars, dataVars, emuVars>>

WatcherSignal ==
    /\ Alive
    /\ pcWatcher = "select"
    /\ winchC > 0
    /\ winchC' = winchC - 1
    /\ pcWatcher' = "send"
    /\ UNCHANGED <<winSize, nResize, winchReg, ch, chCloses, chSends, pcPump, lastWH,
                   newWH, nSends, lastFailed, remoteWH>>
    /\ UNCHANGED <<mainVars, setupVars, termVars, sigVars, ctxVars, ioVars, remoteVars>>
    /\ UNCHANGED <<sysVars, dataVars, emuVars>>

\* ch <- struct{}{}: blocks while the buffer (capacity 1) is full.
ChCap == 1

WatcherSend ==
    /\ Alive
    /\ pcWatcher = "send"
    /\ ch < ChCap
    /\ ch' = ch + 1
    /\ chSends' = IF chCloses > 0 THEN chSends + 1 ELSE chSends
    /\ pcWatcher' = "select"
    /\ UNCHANGED <<winSize, nResize, winchReg, winchC, chCloses, pcPump, lastWH,
                   newWH, nSends, lastFailed, remoteWH>>
    /\ UNCHANGED <<mainVars, setupVars, termVars, sigVars, ctxVars, ioVars, remoteVars>>
    /\ UNCHANGED <<sysVars, dataVars, emuVars>>

\* ------------------------------------------------------------- resize pump
\* w, h, err := ms.getWindowSize(): an error is logged, the pump goes on.
PumpInit ==
    /\ Alive
    /\ pcPump = "init"
    /\ \E ok \in BOOLEAN : lastWH' = IF ok THEN winSize ELSE <<-1, -1>>
    /\ pcPump' = "select"
    /\ UNCHANGED <<winSize, nResize, winchReg, winchC, ch, chCloses, chSends,
                   pcWatcher, newWH, nSends, lastFailed, remoteWH>>
    /\ UNCHANGED <<mainVars, setupVars, termVars, sigVars, ctxVars, ioVars, remoteVars>>
    /\ UNCHANGED <<sysVars, dataVars, emuVars>>

\* select { case <-ctx.Done(): return; case _, ok := <-ch: if !ok { return } }
PumpDone ==
    /\ Alive
    /\ pcPump = "select"
    /\ ctxDone \/ (ch = 0 /\ chCloses > 0)
    /\ pcPump' = "done"
    /\ wg' = wg - 1
    /\ UNCHANGED <<ctxDone, nGotSignal, nExitMsg, exitMsgs, bothReady>>
    /\ UNCHANGED <<winSize, nResize, winchReg, winchC, ch, chCloses, chSends,
                   pcWatcher, lastWH, newWH, nSends, lastFailed, remoteWH>>
    /\ UNCHANGED <<mainVars, setupVars, termVars, sigVars, ioVars, remoteVars>>
    /\ UNCHANGED <<sysVars, dataVars, emuVars>>

PumpNotified ==
    /\ Alive
    /\ pcPump = "select"
    /\ ch > 0
    /\ ch' = ch - 1
    /\ pcPump' = "query"
    /\ UNCHANGED <<winSize, nResize, winchReg, winchC, chCloses, chSends,
                   pcWatcher, lastWH, newWH, nSends, lastFailed, remoteWH>>
    /\ UNCHANGED <<mainVars, setupVars, termVars, sigVars, ctxVars, ioVars, remoteVars>>
    /\ UNCHANGED <<sysVars, dataVars, emuVars>>

\* Mutant: only the width is compared.
SizeChanged_WidthOnly(new, last) == new[1] # last[1]

\* if newW == w && newH == h { continue }
SizeChanged(new, last) == new[1] # last[1] \/ new[2] # last[2]

\* newW, newH, err := ms.getWindowSize()
PumpQuery ==
    /\ Alive
    /\ pcPump = "query"
    /\ \E ok \in BOOLEAN :
         IF ~ok THEN newWH' = <<0, 0>> /\ pcPump' = "queryErr"
         ELSE IF SizeChanged(winSize, lastWH)
         THEN newWH' = winSize /\ pcPump' = "send"
         ELSE newWH' = <<0, 0>> /\ pcPump' = "select"
    /\ UNCHANGED <<winSize, nResize, winchReg, winchC, ch, chCloses, chSends,
                   pcWatcher, lastWH, nSends, lastFailed, remoteWH>>
    /\ UNCHANGED <<mainVars, setupVars, termVars, sigVars, ctxVars, ioVars, remoteVars>>
    /\ UNCHANGED <<sysVars, dataVars, emuVars>>

\* if err != nil { Logger.Printf("failed to get new window size"); continue }
PumpQueryErr ==
    /\ Alive
    /\ pcPump = "queryErr"
    /\ pcPump' = "select"
    /\ UNCHANGED <<winSize, nResize, winchReg, winchC, ch, chCloses, chSends,
                   pcWatcher, lastWH, newWH, nSends, lastFailed, remoteWH>>
    /\ UNCHANGED <<mainVars, setupVars, termVars, sigVars, ctxVars, ioVars, remoteVars>>
    /\ UNCHANGED <<sysVars, dataVars, emuVars>>

\* Mutant: w and h are updated whether or not the send succeeded.
AfterSend_Always(ok, new, last) == new

\* if err != nil { log } else { w = newW; h = newH }
AfterSend(ok, new, last) == IF ok THEN new ELSE last

\* Mutant: the request carries the size the window has at the send.
windowChangeReq_Current(new, cur) == cur

\* windowChangeReq{W: uint32(newW), H: uint32(newH)}: the request carries the
\* size the pump got from its query; cur is the window's size at the send.
windowChangeReq(new, cur) == new

\* ms.sess.SendRequest("window-change", false, {W: newW, H: newH})
PumpSend ==
    /\ Alive
    /\ pcPump = "send"
    /\ \E ok \in BOOLEAN :
         /\ nSends' = nSends + 1
         /\ lastFailed' = ~ok
         /\ remoteWH' = IF ok THEN windowChangeReq(newWH, winSize) ELSE remoteWH
         /\ lastWH' = AfterSend(ok, newWH, lastWH)
    /\ newWH' = <<0, 0>>
    /\ pcPump' = "select"
    /\ UNCHANGED <<winSize, nResize, winchReg, winchC, ch, chCloses, chSends,
                   pcWatcher>>
    /\ UNCHANGED <<mainVars, setupVars, termVars, sigVars, ctxVars, ioVars, remoteVars>>
    /\ UNCHANGED <<sysVars, dataVars, emuVars>>

\* ------------------------------------------------------------ stream pumps
\* io.Copy(os.Stdout, ms.rStdout) returns at end-of-stream or on an error.
StdoutCopy ==
    /\ Alive
    /\ pcStdout = "copy"
    /\ pcStdout' = "done"
    /\ UNCHANGED <<pcStdin, nInput, nWritten, stdinCloses, stdinStarts, stdinEnd, pcStderr>>
    /\ UNCHANGED <<mainVars, setupVars, termVars, sigVars, ctxVars, resizeVars, remoteVars>>
    /\ UNCHANGED <<sysVars, dataVars, emuVars>>

StderrCopy ==
    /\ Alive
    /\ pcStderr = "copy"
    /\ pcStderr' = "done"
    /\ UNCHANGED <<pcStdin, nInput, nWritten, stdinCloses, stdinStarts, stdinEnd, pcStdout>>
    /\ UNCHANGED <<mainVars, setupVars, termVars, sigVars, ctxVars, resizeVars, remoteVars>>
    /\ UNCHANGED <<sysVars, dataVars, emuVars>>

\* Mutant: the return after ms.rStdin.Close() is missing.
AfterRead_NoReturn(r) == IF r = "data" THEN "write" ELSE "read"

\* n, err := ms.readFromStdin(buf); if err != nil { ms.rStdin.Close(); return }
AfterRead(r) == IF r = "data" THEN "write" ELSE "done"

\* readFromStdin: os.Stdin.Read(b), or, on windows with ms.sys.emuStdin, Read
\* of a new ansiReader. items is what the call takes from local stdin: some
\* bytes, or the one or two input records readConsoleInput returned.
readFromStdin(h, s, items) ==
    IF h.goos = "windows" /\ s.emuStdin
    THEN Read(0, items).b
    ELSE items

ReadLimit(h, s) == IF h.goos = "windows" /\ s.emuStdin THEN 2 ELSE BufSize

\* The error of a readFromStdin call that took items from the local stdin and
\* put the bytes b into the buffer.
readFromStdinErr(h, s, items, b) ==
    IF h.goos = "windows" /\ s.emuStdin THEN ReadErr(items, b) ELSE NoErr

\* n, err := ms.readFromStdin(buf): the read takes items from the local stdin,
\* or the local stdin is at its end (a console read of zero records under the
\* input emulation), or the read fails.
StdinRead ==
    /\ Alive
    /\ pcStdin = "read"
    /\ \/ /\ nInput < MaxInput
          /\ \E n \in 1..Len(stdinSrc) :
               LET items == SubSeq(stdinSrc, 1, n)
                   b == readFromStdin(host, sys, items)
                   err == readFromStdinErr(host, sys, items, b)
               IN
               /\ n <= ReadLimit(host, sys)
               /\ stdinGot' = stdinGot \o items
               /\ stdinSrc' = SubSeq(stdinSrc, n + 1, Len(stdinSrc))
               /\ IF err = NoErr
                  THEN /\ buf' = b
                       /\ pcStdin' = IF Len(b) > 0 THEN AfterRead("data") ELSE "read"
                       /\ UNCHANGED <<stdinCloses, stdinEnd>>
                  ELSE /\ buf' = buf
                       /\ stdinEnd' = "eof"
                       /\ pcStdin' = AfterRead("eof")
                       /\ stdinCloses' = stdinCloses + 1
          /\ nInput' = nInput + 1
       \/ /\ \E r \in {"eof", "error"} :
               /\ (r = "eof" /\ host.goos = "windows" /\ sys.emuStdin)
                     => ReadErr(<<>>, <<>>) = "EOF"
               /\ stdinEnd' = r
               /\ pcStdin' = AfterRead(r)
          /\ stdinCloses' = stdinCloses + 1
          /\ UNCHANGED <<nInput, stdinSrc, stdinGot, buf>>
    /\ UNCHANGED <<rStdinData, sysVars>>
    /\ UNCHANGED <<nWritten, stdinStarts, pcStdout, pcStderr>>
    /\ UNCHANGED <<mainVars, setupVars, termVars, sigVars, ctxVars, resizeVars, remoteVars>>
    /\ UNCHANGED emuVars

\* _, err := ms.rStdin.Write(buf[:n]); if err != nil { log; return }
\* Mutant: the chunk goes into the pipe twice.
rStdinWrite_Twice(pipe, b) == pipe \o b \o b

\* ms.rStdin.Write(b): the pipe's content after the bytes b went into it.
rStdinWrite(pipe, b) == pipe \o b

\* A failed Write may have delivered a part of the chunk.
StdinWrite ==
    /\ Alive
    /\ pcStdin = "write"
    /\ \E ok \in BOOLEAN :
         /\ nWritten' = IF ok THEN nWritten + 1 ELSE nWritten
         /\ stdinEnd' = IF ok THEN stdinEnd ELSE "writeError"
         /\ pcStdin' = IF ok THEN "read" ELSE "done"
         /\ IF ok THEN rStdinData' = rStdinWrite(rStdinData, buf)
            ELSE \E k \in 0..(Len(buf) - 1) :
                   rStdinData' = rStdinWrite(rStdinData, SubSeq(buf, 1, k))
    /\ buf' = <<>>
    /\ UNCHANGED <<stdinSrc, stdinGot, sysVars>>
    /\ UNCHANGED <<nInput, stdinCloses, stdinStarts, pcStdout, pcStderr>>
    /\ UNCHANGED <<mainVars, setupVars, termVars, sigVars, ctxVars, resizeVars, remoteVars>>
    /\ UNCHANGED emuVars

\* ------------------------------------------------------------------ Close
\* restoreLocalTerminalMode (unix): terminal.Restore when a state was saved.
RestoreNeeded(saved) == saved # "nil"

\* err = ms.Run(); if err != nil { print; return 1 }; return 0 -- os.Exit.
ExitStatus(err) == IF err # NoErr THEN 1 ELSE 0

\* app.run's deferred ms.Close(): restore the terminal (an error is logged),
\* close the session, close the connection; then os.Exit(a.run()).
CloseCalls ==
    /\ IF host.goos = "windows"
       THEN \E restOk \in StreamAnswers :
              LET res == restoreLocalTerminalMode(sys, conMode, restOk) IN
              /\ conMode' = res.con
              /\ consoleLog' = consoleLog \o res.log
              /\ termMode' = IF res.con["stdin"] = sys.stdinMode THEN "cooked" ELSE termMode
              /\ closeLog' = closeLog
                             \o (IF res.log # <<>> THEN <<"Restore">> ELSE <<>>)
                             \o (IF res.err # NoErr THEN <<"Println">> ELSE <<>>)
                             \o <<"sess.Close", "conn.Close">>
       ELSE \E ok \in BOOLEAN :
              /\ termMode' = IF RestoreNeeded(origMode) /\ ok THEN "cooked" ELSE termMode
              /\ closeLog' = closeLog
                             \o (IF RestoreNeeded(origMode) THEN <<"Restore">> ELSE <<>>)
                             \o (IF RestoreNeeded(origMode) /\ ~ok THEN <<"Println">>
                                 ELSE <<>>)
                             \o <<"sess.Close", "conn.Close">>
              /\ UNCHANGED <<conMode, consoleLog>>
    /\ conn' = IF conn = "open" THEN "closed" ELSE conn
    /\ UNCHANGED <<host, sys, dataVars>>

Close ==
    /\ pcMain = "return"
    /\ CloseCalls
    /\ pcMain' = "exited"
    /\ exitCode' = ExitStatus(retErr)
    /\ UNCHANGED <<conf, caller, mode, retErr, setupLog, origMode, setupWH>>
    /\ UNCHANGED <<sigVars, ctxVars, resizeVars, ioVars, remoteVars>>
    /\ UNCHANGED emuVars

\* ------------------------------------------------------------ specification
\* The main goroutine, the signal environment, the remote program, the exit
\* waiter and the start and end of the resize goroutines.
Core ==
    \/ TermSignal \/ RemoteExit
    \/ AppIsTerminal \/ OpenFinish \/ Run \/ CallRunSubsystem
    \/ PrepareRemoteTerminal \/ PrepareLocalTerminal \/ WatchSignals
    \/ InvokeResizeTerminal \/ InvokeInOutPipes \/ StartWaiter
    \/ SelectSignal \/ SelectExit \/ Defer \/ DeferWait
    \/ BatchWatchSignals \/ BatchGo \/ WaiterStart \/ WaiterReturn
    \/ WatcherDone \/ PumpInit \/ PumpDone
    \/ Close

\* The window changes and the watcher and the resize pump react.
Resizing ==
    \/ WinResize \/ WatcherSignal \/ WatcherSend
    \/ PumpNotified \/ PumpQuery \/ PumpQueryErr \/ PumpSend

\* Open shows a prompt, whose signal handler runs.
Prompting ==
    \/ OpenPromptBegin \/ OpenPromptEnd \/ HandlerNotify \/ HandlerSelect

\* The stream pumps move data.
Streaming ==
    \/ StdoutCopy \/ StderrCopy \/ StdinRead \/ StdinWrite

\* The session with window changes; Open shows no prompt and the three
\* streams are silent (their pumps stay blocked in their reads, which share
\* no state with the rest).
Next == Core \/ Resizing

Spec == Init /\ [][Next]_vars

\* The session with stream traffic; no prompt, the window never changes.
NextIO == Core \/ Streaming

SpecIO == Init /\ [][NextIO]_vars

\* The session after an Open that may show a prompt; silent streams, the
\* window never changes.
NextOpen == Core \/ Prompting

SpecOpen == Init /\ [][NextOpen]_vars

\* The session on the windows build, on consoles with and without virtual
\* terminal support, next to the unix build.
\* The input emulator reads the console in an interactive session on a
\* console that rejects the virtual terminal input flag.
Emulated(h, c) == h.goos = "windows" /\ ~h.vtInput /\ ~c.command

\* The keys l and Enter, as the key-down records of the console.
TypedKeys == <<KeyDown(76, 108, 0), KeyDown(13, 13, 0)>>

InitWin ==
    /\ InitConf(PlainConfigs)
    /\ host \in WindowsHosts \cup {UnixHost}
    /\ stdinSrc = IF Emulated(host, conf) THEN TypedKeys ELSE PlainInput
    /\ InitSession /\ InitEmu

NextWin == Core

\* The session with stream traffic on a console that rejects the virtual
\* terminal input flag: in interactive mode the stdin pump reads the console
\* through the input emulator, and the console delivers the two halves of
\* U+1F600.
LegacyInputHost ==
    [goos |-> "windows", vtInput |-> FALSE, vtOutput |-> TRUE, vtErr |-> TRUE, dnar |-> TRUE]

InitConsoleInput ==
    /\ InitConf(PlainConfigs)
    /\ host = LegacyInputHost
    /\ stdinSrc = IF Emulated(host, conf) THEN <<HighHalf, LowHalf>> ELSE PlainInput
    /\ InitSession /\ InitEmu

SpecConsoleInput == InitConsoleInput /\ [][NextIO]_vars

\* The same session on a console that delivers records without a key-down:
\* key-up, mouse, window-buffer-size, focus and menu events, before, between
\* or after the key a.
IgnoredInputs ==
    {<<KeyUp, OtherEvent(mouseEvent), KeyDown(65, 97, 0)>>,
     <<OtherEvent(windowBufferSizeEvent), OtherEvent(focusEvent)>>,
     <<OtherEvent(menuEvent), KeyDown(65, 97, 0), KeyUp>>}

InitIgnoredInput ==
    /\ InitConf(PlainConfigs)
    /\ host = LegacyInputHost
    /\ stdinSrc \in (IF Emulated(host, conf) THEN IgnoredInputs ELSE {PlainInput})
    /\ InitSession /\ InitEmu

SpecIgnoredInput == InitIgnoredInput /\ [][NextIO]_vars

SpecWin == InitWin /\ [][NextWin]_vars

\* The session on consoles found in any mode: a program that ran before may
\* have left a stream with every flag cleared, so that getConsoleMode
\* answers 0.
Consoles == [stdin : {0, 503}, stdout : {0, 3}, stderr : {0, 3}]

InitConsoles ==
    /\ InitConf(PlainConfigs)
    /\ host \in WindowsHosts
    /\ stdinSrc = IF Emulated(host, conf) THEN TypedKeys ELSE PlainInput
    /\ \E con \in Consoles : InitSessionOn(con)
    /\ InitEmu

SpecConsoles == InitConsoles /\ [][NextWin]_vars

\* The number of calls of Close so far.
ClosesMade == Cardinality({i \in 1..Len(closeLog) : closeLog[i] = "conn.Close"})

\* Close called once more after it has returned, as a program does that
\* calls ms.Close() at the end and has it deferred as well.
CloseAgain ==
    /\ pcMain = "exited"
    /\ ClosesMade = 1
    /\ CloseCalls
    /\ UNCHANGED <<conf, caller, pcMain, mode, retErr, exitCode, setupLog, origMode,
                   setupWH>>
    /\ UNCHANGED <<sigVars, ctxVars, resizeVars, ioVars, remoteVars>>
    /\ UNCHANGED emuVars

NextRestore == Core \/ CloseAgain

SpecRestore == InitWin /\ [][NextRestore]_vars

\* The session under every configuration, with the window unchanged, the
\* streams silent and no prompt in Open.
InitModes ==
    /\ InitConf(Configs) /\ InitHost({UnixHost}, {PlainInput})
    /\ InitSession /\ InitEmu

NextModes == Core

SpecModes == InitModes /\ [][NextModes]_vars

\* The key translator alone, applied to every key event of KeyEvents.
NextKeys == ToAnsiSeq

InitKeys ==
    /\ InitConf({c \in PlainConfigs : ~c.command /\ ~c.noTTY})
    /\ caller = "app"
    /\ InitHost({UnixHost}, {PlainInput})
    /\ InitSession /\ InitEmu

SpecKeys == InitKeys /\ [][NextKeys]_vars

\* Two ansiReader instances reading console input.
NextReaders == ReaderRead

SpecReaders == InitKeys /\ [][NextReaders]_vars

\* The stdout and stderr writers of a session on a console that rejects the
\* virtual terminal processing flag, taking the remote output in chunks.
InitWriters ==
    /\ InitConf({c \in PlainConfigs : ~c.command /\ ~c.noTTY}) /\ caller = "app"
    /\ host = [goos |-> "windows", vtInput |-> TRUE, vtOutput |-> FALSE, vtErr |-> FALSE,
               dnar |-> FALSE]
    /\ stdinSrc = PlainInput
    /\ InitSession
    /\ keyEv = [keyDown |-> 0, virtualKeyCode |-> 0, unicodeChar |-> 0,
                controlKeyState |-> 0]
    /\ keySeq = <<>>
    /\ ar = [i \in {"a", "b"} |-> 0]
    /\ arRecs = [i \in {"a", "b"} |-> <<>>]
    /\ arOut = [i \in {"a", "b"} |-> <<>>]
    /\ InitOut(OutputSeqs)
    /\ InitHostKey({KnownHost})
    /\ InitIdentity({GivenIdentity})

\* The host key callback alone, on every input of HostKeyInputs.
InitHostKeys ==
    /\ InitConf({c \in PlainConfigs : ~c.command /\ ~c.noTTY}) /\ caller = "app"
    /\ InitHost({UnixHost}, {PlainInput})
    /\ InitSession
    /\ InitOut({<<>>})
    /\ keyEv = [keyDown |-> 0, virtualKeyCode |-> 0, unicodeChar |-> 0,
                controlKeyState |-> 0]
    /\ keySeq = <<>>
    /\ ar = [i \in {"a", "b"} |-> 0]
    /\ arRecs = [i \in {"a", "b"} |-> <<>>]
    /\ arOut = [i \in {"a", "b"} |-> <<>>]
    /\ InitHostKey(HostKeyInputs)
    /\ InitIdentity({GivenIdentity})

NextHostKeys == VerifyAndAppendNew

SpecHostKeys == InitHostKeys /\ [][NextHostKeys]_vars

\* parseArgs over every command line and every set of default files present.
InitIdentities ==
    /\ InitConf({c \in PlainConfigs : ~c.command /\ ~c.noTTY}) /\ caller = "app"
    /\ InitHost({UnixHost}, {PlainInput})
    /\ InitSession
    /\ InitOut({<<>>})
    /\ keyEv = [keyDown |-> 0, virtualKeyCode |-> 0, unicodeChar |-> 0,
                controlKeyState |-> 0]
    /\ keySeq = <<>>
    /\ ar = [i \in {"a", "b"} |-> 0]
    /\ arRecs = [i \in {"a", "b"} |-> <<>>]
    /\ arOut = [i \in {"a", "b"} |-> <<>>]
    /\ InitHostKey({KnownHost})
    /\ InitIdentity(IdentityInputs)

NextIdentities == ParseArgs

SpecIdentities == InitIdentities /\ [][NextIdentities]_vars

NextWriters == WriterWrite

SpecWriters == InitWriters /\ [][NextWriters]_vars

\* Go schedules every runnable goroutine: each goroutine that can take a step
\* eventually takes one. Nothing is assumed of the environment.
MainStep ==
    \/ AppIsTerminal \/ OpenFinish \/ Run \/ CallRunSubsystem
    \/ PrepareRemoteTerminal \/ PrepareLocalTerminal \/ WatchSignals
    \/ InvokeResizeTerminal \/ InvokeInOutPipes \/ StartWaiter
    \/ SelectSignal \/ SelectExit \/ Defer \/ DeferWait
    \/ BatchWatchSignals \/ BatchGo \/ Close

WatcherStep == WatcherDone \/ WatcherSignal \/ WatcherSend

PumpStep == PumpInit \/ PumpDone \/ PumpNotified \/ PumpQuery \/ PumpQueryErr \/ PumpSend

WaiterStep == WaiterStart \/ WaiterReturn

FairSpec ==
    /\ Spec
    /\ WF_vars(MainStep)
    /\ WF_vars(WatcherStep)
    /\ WF_vars(PumpStep)
    /\ WF_vars(WaiterStep)

\* The same for the session with stream traffic; the stdin pump's write is a
\* step of the program, while the arrival of input, of remote output and of
\* their ends is the environment's.
FairSpecIO ==
    /\ SpecIO
    /\ WF_vars(MainStep)
    /\ WF_vars(WatcherStep)
    /\ WF_vars(PumpStep)
    /\ WF_vars(WaiterStep)
    /\ WF_vars(StdinWrite)

\* The same for Open with a prompt: the goroutine of the prompt's signal
\* handler is scheduled as well; when the user answers the prompt and when
\* the remote program ends is left to them.
HandlerStep == HandlerNotify \/ HandlerSelect

FairSpecOpen ==
    /\ SpecOpen
    /\ WF_vars(MainStep)
    /\ WF_vars(HandlerStep)
    /\ WF_vars(WaiterStep)
    /\ WF_vars(WatcherDone)
    /\ WF_vars(PumpInit \/ PumpDone)

\* ------------------------------------------------------------------ claims
Goroutines == <<pcWatcher, pcPump, pcStdin, pcStdout, pcStderr, pcWaiter>>

NoneStarted == \A i \in 1..Len(Goroutines) : Goroutines[i] = "notstarted"

ProcessEnded == pcMain \in {"exited", "killed"}

RestoreAttempted == \E i \in 1..Len(closeLog) : closeLog[i] = "Restore"

\* C1: whenever the process has ended with the local terminal in raw mode,
\* Close had called the restoration before the end (the restoration itself
\* failed); a process never ends in raw mode without the restoration attempt.
C1_RestoredBeforeExit ==
    (ProcessEnded /\ termMode = "raw") => RestoreAttempted

\* C2: once RunInteractive has left its select or failed in its setup, the
\* call returns and Close completes (unless a signal kills the process).
C2_RunInteractiveReachesClosed ==
    (mode = "interactive" /\ pcMain \in {"defer", "deferWait", "return"})
        ~> ProcessEnded

RemoteSetupErrs == {SetupErr(RemoteSteps[i]) : i \in 1..Len(RemoteSteps)}

\* C3: when a step of the remote setup has failed, RunInteractive returns that
\* error, the terminal was never put into raw mode, and no watcher, pump or
\* exit waiter was started.
C3_SetupFailureBeforeRawMode ==
    retErr \in RemoteSetupErrs =>
        /\ retErr = SetupErr(setupLog[Len(setupLog)])
        /\ pcMain \in {"return", "exited"}
        /\ termMode = "cooked" /\ origMode = "nil"
        /\ NoneStarted /\ wg = 0 /\ ~sessReg /\ ~winchReg
        /\ pcMain = "exited" => exitCode = 1

C3_Witness ==
    /\ pcMain = "exited" /\ exitCode = 1
    /\ retErr = SetupErr("Shell")
    /\ Len(setupLog) = Len(RemoteSteps)

\* C4: when raw-mode entry has failed, RunInteractive returns that error and
\* the session goes straight to Close: no pump, watcher or exit waiter is
\* ever started, and the terminal is as it was.
C4_RawModeFailureStartsNothing ==
    retErr = "failed:MakeRaw" =>
        /\ pcMain \in {"return", "exited"}
        /\ termMode = "cooked" /\ origMode = "nil"
        /\ NoneStarted /\ wg = 0 /\ ~sessReg /\ ~winchReg /\ ~ctxDone
        /\ nGotSignal = 0 /\ nExitMsg = 0
        /\ pcMain = "exited" =>
             exitCode = 1 /\ closeLog = <<"sess.Close", "conn.Close">>

C4_Witness ==
    /\ pcMain = "exited" /\ exitCode = 1
    /\ retErr = "failed:MakeRaw"
    /\ remote = "running"

\* C5: the stdin pump is started at most once and calls Close on the remote
\* stdin at most once; after end-of-stream or a read error it has closed it
\* exactly once and has stopped, and a stopped pump never runs or closes again.
C5_StdinClosedOnce ==
    /\ [](/\ stdinStarts <= 1
          /\ stdinCloses <= 1
          /\ stdinEnd \in {"eof", "error"} => (stdinCloses = 1 /\ pcStdin = "done")
          /\ stdinCloses = 1 => stdinEnd \in {"eof", "error"})
    /\ [][pcStdin = "done" =>
            \/ pcStdin' = "done" /\ stdinCloses' = stdinCloses
            \/ pcMain' = "killed"]_vars

C5_Witness ==
    /\ pcStdin = "done" /\ stdinEnd = "eof"
    /\ stdinCloses = 1 /\ stdinStarts = 1
    /\ nInput = 1 /\ nWritten = 1

Outcomes == nGotSignal + nExitMsg

LeftPumpsRunning ==
    /\ mode = "interactive" /\ retErr = NoErr
    /\ pcMain \in {"defer", "deferWait", "return", "exited"}

\* C6: an interactive session leaves PumpsRunning through exactly one of the
\* two select cases ('got signal' or the exit message), also when both were
\* ready together, and the scope is cancelled only after that.
C6_ExactlyOneWinner ==
    /\ Outcomes <= 1
    /\ mode = "interactive" =>
         /\ LeftPumpsRunning <=> Outcomes = 1
         /\ ctxDone => LeftPumpsRunning /\ pcMain # "defer"
         /\ (LeftPumpsRunning /\ pcMain # "defer") => ctxDone
         /\ bothReady => Outcomes = 1

C6_Witness ==
    /\ mode = "interactive" /\ bothReady /\ ctxDone
    /\ nGotSignal = 1 /\ nExitMsg = 0
    /\ pcWaiter = "send"

PumpLeaves(pc) == pcPump = pc /\ pcPump' # pc /\ pcMain' # "killed"

\* C7: after a notification the pump queries the size; when the queried size
\* equals the last-known one no request is sent; when the width or the height
\* differs exactly one request carrying the queried size is sent, and the
\* last-known size becomes the queried size only if that send succeeded.
C7_ResizeRequests ==
    /\ [](pcPump = "send" => newWH \in Sizes /\ newWH # lastWH)
    /\ [][PumpLeaves("query") =>
            /\ nSends' = nSends /\ lastWH' = lastWH /\ remoteWH' = remoteWH
            /\ pcPump' \in {"queryErr", "select", "send"}
            /\ pcPump' = "select" => winSize = lastWH
            /\ pcPump' = "send" => winSize # lastWH /\ newWH' = winSize]_vars
    /\ [][PumpLeaves("send") =>
            /\ nSends' = nSends + 1
            /\ pcPump' = "select"
            /\ IF lastFailed'
               THEN lastWH' = lastWH /\ remoteWH' = remoteWH
               ELSE lastWH' = newWH /\ remoteWH' = newWH]_vars
    /\ [][(nSends' # nSends /\ pcMain' # "killed") => pcPump = "send"]_vars

C7_Witness ==
    /\ pcPump = "select" /\ ch = 0
    /\ nSends = 1 /\ ~lastFailed
    /\ nResize = 2
    /\ lastWH = <<1, 2>> /\ remoteWH = <<1, 2>> /\ winSize = <<1, 2>>

\* C8: a failed send or a failed size query changes nothing but the log: the
\* pump goes back to waiting, the main goroutine and the scope are untouched,
\* the last-known size stays, and after a failed send the next notification
\* sends again when the size still differs from the last-known one.
C8_ResizeFailureOnlyLogged ==
    /\ [][((PumpLeaves("send") /\ lastFailed') \/ PumpLeaves("queryErr")) =>
            /\ pcPump' = "select"
            /\ lastWH' = lastWH /\ remoteWH' = remoteWH
            /\ pcMain' = pcMain /\ ctxDone' = ctxDone /\ wg' = wg]_vars
    /\ [][(pcPump = "query" /\ pcPump' = "queryErr") =>
            /\ lastWH' = lastWH /\ nSends' = nSends
            /\ pcMain' = pcMain /\ ctxDone' = ctxDone /\ wg' = wg]_vars
    /\ [][(PumpLeaves("query") /\ lastFailed /\ pcPump' # "queryErr"
           /\ winSize # lastWH) =>
            pcPump' = "send" /\ newWH' = winSize]_vars

C8_Witness ==
    /\ pcMain = "select" /\ ~ctxDone
    /\ pcPump = "send" /\ lastFailed /\ nSends = 1
    /\ newWH = winSize

\* C9: the watcher closes its notification channel at most once and never
\* sends on it afterwards, and once the scope is cancelled it does close it
\* (unless a signal kills the process first).
C9_ChannelClosedOnce ==
    /\ [](chCloses <= 1 /\ chSends = 0)
    /\ ctxDone ~> (chCloses = 1 \/ pcMain = "killed")

\* C10: a Run* method that has returned nil did so after a signal was
\* received or with the remote program not (or no longer) running.
C10_ReturnsOnlyAfterEnd ==
    (mode # "none" /\ retErr = NoErr /\ pcMain \in {"return", "exited"}) =>
        (nGotSignal >= 1 \/ remote # "running")

\* The Run* method the README's three modes and the flag -s name for a
\* configuration.
ModeNamed(c) ==
    IF ~c.command THEN "interactive"
    ELSE IF c.isSubsystem THEN "subsystem" ELSE "command"

\* C11: the method Run executes is the one the configuration selects: the
\* interactive shell for an empty command, RunSubsystem for a command with
\* the subsystem flag, RunCommand for a command without it.
C11_RunSelectsMode ==
    (caller = "app" /\ mode # "none") => mode = ModeNamed(conf)

ErrorTexts == [ExitMissingError |-> "but remote didn't send exit status",
               ExitError |-> "with error"]

\* C12 as stated: after the select's exit case of RunInteractive or
\* RunCommand exactly one message was printed; it is 'successfully' for nil, the missing-status text for
\* *ssh.ExitMissingError, 'with error' for *ssh.ExitError, and for any
\* other error a text different from these three.
C12_OneMessagePerExit ==
    (nExitMsg = 1 /\ CallWaitsForExit(mode)) =>
        /\ Len(exitMsgs) = 1
        /\ waitErr = NoErr => exitMsgs[1] = "successfully"
        /\ waitErr \in DOMAIN ErrorTexts => exitMsgs[1] = ErrorTexts[waitErr]
        /\ waitErr \notin DOMAIN ErrorTexts \cup {NoErr} =>
             exitMsgs[1] \notin {"successfully", ErrorTexts.ExitMissingError,
                                 ErrorTexts.ExitError}

\* C12 amended: as C12, except that in quiet mode the nil outcome prints
\* nothing; never is more than one message printed.
C12_MessageUnlessQuiet ==
    /\ Len(exitMsgs) <= 1
    /\ nExitMsg = 0 /\ Alive => exitMsgs = <<>>
    /\ nExitMsg = 1 =>
        /\ Len(exitMsgs) = (IF waitErr = NoErr /\ conf.quiet THEN 0 ELSE 1)
        /\ (waitErr = NoErr /\ ~conf.quiet) => exitMsgs[1] = "successfully"
        /\ waitErr \in DOMAIN ErrorTexts => exitMsgs[1] = ErrorTexts[waitErr]
        /\ waitErr \notin DOMAIN ErrorTexts \cup {NoErr} =>
             exitMsgs[1] \notin {"successfully", ErrorTexts.ExitMissingError,
                                 ErrorTexts.ExitError}

C12_Witness ==
    /\ mode = "interactive" /\ pcMain = "exited"
    /\ nExitMsg = 1 /\ waitErr = NoErr /\ remote = "exited"
    /\ conf.quiet /\ exitMsgs = <<>>

\* C13: for every key-down event toAnsiSeq returns the sequence of the
\* mapping table: the arrows, Home and End give ESC [ letter, or
\* ESC [ 1 ; 5 letter with a Ctrl bit; Backspace 0x7F, or ESC 0x08 with Alt
\* and without Ctrl; Pause 0x1A; Escape 0x1B; Insert, Delete, PageUp,
\* PageDown ESC [ 2~, 3~, 5~, 6~; F1-F4 ESC O P..S; F5-F12 ESC [ nn ~; a
\* printable character with Alt and without Ctrl ESC char; anything else no
\* sequence.
C13_ToAnsiSeqTable ==
    LET vk == keyEv.virtualKeyCode
        uc == keyEv.unicodeChar
        ctrl == BitAnd(keyEv.controlKeyState, 12) # 0
        alt == BitAnd(keyEv.controlKeyState, 3) # 0
        letter == (38 :> 65) @@ (40 :> 66) @@ (39 :> 67) @@ (37 :> 68)
                  @@ (36 :> 72) @@ (35 :> 70)
        tilde == (45 :> 50) @@ (46 :> 51) @@ (33 :> 53) @@ (34 :> 54)
        fnn == <<15, 17, 18, 19, 20, 21, 23, 24>>
        table ==
            CASE vk \in DOMAIN letter ->
                   IF ctrl THEN <<27, 91, 49, 59, 53, letter[vk]>>
                   ELSE <<27, 91, letter[vk]>>
              [] vk = 8 -> IF alt /\ ~ctrl THEN <<27, 8>> ELSE <<127>>
              [] vk = 19 -> <<26>>
              [] vk = 27 -> <<27>>
              [] vk \in DOMAIN tilde -> <<27, 91, tilde[vk], 126>>
              [] vk \in 112..115 -> <<27, 79, 80 + (vk - 112)>>
              [] vk \in 116..123 ->
                   <<27, 91, 48 + (fnn[vk - 115] \div 10),
                     48 + (fnn[vk - 115] % 10), 126>>
              [] OTHER ->
                   IF uc \in 32..126 /\ alt /\ ~ctrl THEN <<27, uc>> ELSE <<>>
    IN  keyEv.keyDown = 1 => keySeq = table

C13_Witness ==
    /\ keyEv.keyDown = 1
    /\ keyEv.virtualKeyCode = 39 /\ keyEv.controlKeyState = 8
    /\ keySeq = <<27, 91, 49, 59, 53, 67>>

\* A Read of exactly one key-down record that toAnsiSeq maps.
MappedRead(recs) ==
    /\ Len(recs) = 1
    /\ recs[1].eventType = keyEvent /\ recs[1].event.keyDown = 1
    /\ toAnsiSeq(recs[1].event) # NilSeq

\* C14: two readers that last read the same mapped key event returned the
\* same bytes, the table's sequence, whatever they had read before and
\* whether or not a surrogate half was pending; and a reader's pending half
\* is the same after reading a mapped key as before.
C14_MappedKeysIgnoreHistory ==
    /\ [](\A i, j \in Readers :
            (MappedRead(arRecs[i]) /\ arRecs[j] = arRecs[i]) =>
                /\ arOut[i] = arOut[j]
                /\ arOut[i] = toAnsiSeq(arRecs[i][1].event))
    /\ [][\A i \in Readers : MappedRead(arRecs'[i]) => ar'[i] = ar[i]]_vars

C14_Witness ==
    /\ arRecs["a"] = <<KeyDown(vk_right, 0, left_ctrl_pressed)>>
    /\ arRecs["b"] = arRecs["a"]
    /\ ar["a"] = 55357 /\ ar["b"] = 0
    /\ arOut["a"] = <<27, 91, 49, 59, 53, 67>> /\ arOut["b"] = arOut["a"]

\* The setConsoleMode calls of raw-mode entry on one stream, in their order.
CallsOn(fd) == SelectSeq(consoleLog, LAMBDA c : c.fd = fd)

\* Raw-mode entry on the console has made its calls; the process lives and
\* Close has not run.
RawEntryMade ==
    host.goos = "windows" /\ consoleLog # <<>> /\ pcMain \notin {"exited", "killed"}

\* C18: during raw-mode entry on the console the first mode requested for
\* stdin carries EnableVirtualTerminalInput and the first mode requested for
\* stdout carries EnableVirtualTerminalProcessing; emuStdin is set exactly
\* when the mode with the virtual terminal input flag was rejected and the
\* mode without it was accepted; emuStdout is set exactly when every mode
\* with the virtual terminal processing flag was rejected for stdout; the
\* entry fails only when the plain raw input mode is rejected, so a rejected
\* virtual terminal request is never an error.
C18_VirtualTerminalFirst ==
    RawEntryMade =>
        LET inCalls == CallsOn("stdin")
            outCalls == CallsOn("stdout")
            vtIn(c) == BitAnd(c.mode, enableVirtualTerminalInput) # 0
            vtOut(c) == BitAnd(c.mode, enableVirtualTerminalProcessing) # 0
            plainAccepted == \E i \in 2..Len(inCalls) : ~vtIn(inCalls[i]) /\ inCalls[i].ok
            plainRejected == \E i \in 2..Len(inCalls) : ~vtIn(inCalls[i]) /\ ~inCalls[i].ok
        IN  /\ vtIn(inCalls[1])
            /\ outCalls # <<>> => vtOut(outCalls[1])
            /\ sys.emuStdin <=> (~inCalls[1].ok /\ plainAccepted)
            /\ sys.emuStdout <=>
                   /\ outCalls # <<>>
                   /\ \A i \in 1..Len(outCalls) : vtOut(outCalls[i]) /\ ~outCalls[i].ok
            /\ retErr # NoErr <=> plainRejected

\* Input is emulated while the console processes the output natively: the
\* virtual terminal input flag was rejected, the one for output accepted.
C18_Witness ==
    /\ RawEntryMade
    /\ sys.emuStdin /\ ~sys.emuStdout
    /\ ~CallsOn("stdin")[1].ok
    /\ CallsOn("stdout")[1].ok
    /\ retErr = NoErr
    /\ pcMain = "watchSignals"

\* The other three combinations of the two flags after raw-mode entry.
C18_BothEmulated ==
    RawEntryMade /\ sys.emuStdin /\ sys.emuStdout /\ pcMain = "watchSignals"

C18_OutputEmulatedOnly ==
    RawEntryMade /\ ~sys.emuStdin /\ sys.emuStdout /\ pcMain = "watchSignals"

C18_NoneEmulated ==
    RawEntryMade /\ ~sys.emuStdin /\ ~sys.emuStdout /\ pcMain = "watchSignals"

\* The saved mode of a stream in ms.sys.
SavedMode(fd) ==
    IF fd = "stdin" THEN sys.stdinMode
    ELSE IF fd = "stdout" THEN sys.stdoutMode ELSE sys.stderrMode

\* C19: Close on the console attempts the restoration of every stream whose
\* mode was captured, once each and whatever the outcome of the attempts
\* before it; when an attempt fails Close logs the error, and in every case
\* it closes the session and then the connection and the process exits with
\* the status that the error of Run gives it.
C19_RestoreAttemptsAll ==
    [][(host.goos = "windows" /\ closeLog' # closeLog) =>
          LET calls == SubSeq(consoleLog', Len(consoleLog) + 1, Len(consoleLog'))
              on(fd) == SelectSeq(calls, LAMBDA c : c.fd = fd)
              failed == \E i \in 1..Len(calls) : ~calls[i].ok
              n == Len(closeLog')
          IN  /\ \A fd \in {"stdin", "stdout", "stderr"} :
                   IF SavedMode(fd) > 0
                   THEN Len(on(fd)) = 1 /\ on(fd)[1].mode = SavedMode(fd)
                   ELSE on(fd) = <<>>
              /\ failed <=> \E i \in 1..n : closeLog'[i] = "Println"
              /\ n >= 2 /\ closeLog'[n - 1] = "sess.Close" /\ closeLog'[n] = "conn.Close"
              /\ pcMain' = "exited"
              /\ exitCode' = ExitStatus(retErr)
      ]_vars

\* The process has exited after a session in raw mode; the restoration of
\* stdin failed, those of stdout and stderr were still attempted, the
\* failure was logged and the session and the connection were closed.
C19_Witness ==
    /\ host.goos = "windows" /\ pcMain = "exited"
    /\ Len(consoleLog) >= 3
    /\ LET n == Len(consoleLog) IN
         /\ consoleLog[n - 2] = [fd |-> "stdin", mode |-> sys.stdinMode, ok |-> FALSE]
         /\ consoleLog[n - 1].fd = "stdout" /\ consoleLog[n - 1].mode = sys.stdoutMode
         /\ consoleLog[n].fd = "stderr" /\ consoleLog[n].mode = sys.stderrMode
    /\ termMode = "raw"
    /\ closeLog = <<"Restore", "Println", "sess.Close", "conn.Close">>

IsPrefix(a, b) == Len(a) <= Len(b) /\ SubSeq(b, 1, Len(a)) = a

\* The input emulator is not in use.
Passthrough == ~(host.goos = "windows" /\ sys.emuStdin)

\* C17: without input emulation the bytes written to the remote stdin pipe
\* are at every moment a prefix of the bytes read from local stdin, and
\* once the pump has seen the end of local stdin without a write error the
\* two sequences are equal.
C17_StdinPassthrough ==
    Passthrough =>
        /\ IsPrefix(rStdinData, stdinGot)
        /\ (pcStdin = "done" /\ stdinEnd = "eof") => rStdinData = stdinGot

\* "ls\n" was read in two chunks, the end of local stdin followed, and
\* "ls\n" is what the remote stdin pipe got.
C17_Witness ==
    /\ Passthrough
    /\ pcStdin = "done" /\ stdinEnd = "eof"
    /\ nInput = 2 /\ nWritten = 2
    /\ stdinGot = PlainInput
    /\ rStdinData = PlainInput

\* The input emulator is in use and the stdin pump has written everything it
\* has read and waits for more.
EmulatedSettled ==
    /\ host.goos = "windows" /\ sys.emuStdin
    /\ pcStdin = "read" /\ buf = <<>> /\ stdinEnd = "none"

\* C15: in the emulated input path of a session, once the pump has taken the
\* high and the low half of U+1F600 from the console, in one read or in two,
\* the remote stdin pipe holds the UTF-8 encoding of U+1F600 and nothing
\* else; with the high half alone it holds nothing.
C15_SurrogatePairRoundTrip ==
    EmulatedSettled =>
        /\ stdinGot = <<HighHalf, LowHalf>> => rStdinData = <<240, 159, 152, 128>>
        /\ stdinGot = <<HighHalf>> => rStdinData = <<>>

\* A goroutine the session has spawned has returned.
Returned(pc) == pc = "done"

\* Position of a call in the log of Close, 0 when it was not made.
CloseStep(name) ==
    IF \E i \in 1..Len(closeLog) : closeLog[i] = name
    THEN CHOOSE i \in 1..Len(closeLog) : closeLog[i] = name
    ELSE 0

\* C20: when Close has restored the local terminal mode of an interactive
\* session, the scope had been cancelled and the stdin, stdout, stderr and
\* resize pumps and the resize watcher had all returned before; and the
\* restoration came before the close of the remote session, which came
\* before the close of the connection.
C20_TeardownOrder ==
    (pcMain = "exited" /\ mode = "interactive" /\ CloseStep("Restore") > 0) =>
        /\ ctxDone
        /\ Returned(pcWatcher) /\ Returned(pcPump)
        /\ Returned(pcStdin) /\ Returned(pcStdout) /\ Returned(pcStderr)
        /\ CloseStep("Restore") < CloseStep("sess.Close")
        /\ CloseStep("sess.Close") < CloseStep("conn.Close")

\* The part of C20 about the goroutines the wait group counts and about the
\* order of the calls of Close, without the three stream pumps.
C20_CountedGoroutinesAndOrder ==
    (pcMain = "exited" /\ mode = "interactive" /\ CloseStep("Restore") > 0) =>
        /\ ctxDone
        /\ Returned(pcWatcher) /\ Returned(pcPump)
        /\ CloseStep("Restore") < CloseStep("sess.Close")
        /\ CloseStep("sess.Close") < CloseStep("conn.Close")

\* copyToStderr: if ms.sys.emuStdout { stderr = NewAnsiWriter(os.Stderr) }.
stderrEmulated(s) == s.emuStdout

AllTasksReturned == \A i \in 1..Len(Goroutines) : Returned(Goroutines[i])

\* C21: once the scope of an interactive session is cancelled, the resize
\* watcher, the resize pump, the stdin, stdout and stderr pumps and the exit
\* waiter all eventually return.
C21_TasksReturnAfterCancel == ctxDone ~> AllTasksReturned

\* The part of C21 that holds: the two tasks that select on the cancellation,
\* the resize watcher and the resize pump, return when the window does not
\* change any more.
C21_SelectingTasksReturn ==
    (ctxDone /\ pcMain = "return") => (Returned(pcWatcher) /\ Returned(pcPump))

\* C22: a stdin pump that has stopped on a failed read of local stdin or on
\* a failed write to the remote stdin has closed the remote stdin.
C22_FailedPumpClosesItsEnd ==
    (pcStdin = "done" /\ stdinEnd \in {"error", "writeError"}) => stdinCloses = 1

\* The part of C22 that holds: the pump stops on either failure, and after
\* a failed read it has closed the remote stdin.
C22_FailedPumpStops ==
    /\ stdinEnd \in {"error", "writeError"} => pcStdin \in {"done", "notstarted"}
    /\ (pcStdin = "done" /\ stdinEnd = "error") => stdinCloses = 1

\* The session is in its select with the pumps started.
PumpsRunning == mode = "interactive" /\ pcMain = "select"

\* C23: the end of one of the stdin, stdout and stderr pumps changes nothing
\* of its siblings and leaves the session where it is; a sibling that has
\* not ended can always take its next step; and the session leaves its
\* select only by taking a signal from sigC or the waiter's result from
\* sessC.
C23_PumpEndIsolated ==
    /\ [](Alive => /\ pcStdout = "copy" => ENABLED StdoutCopy
                   /\ pcStderr = "copy" => ENABLED StderrCopy
                   /\ pcStdin = "read" => ENABLED StdinRead
                   /\ pcStdin = "write" => ENABLED StdinWrite)
    /\ [][pcMain' # "killed" =>
            /\ (pcStdin # "done" /\ pcStdin' = "done") =>
                   UNCHANGED <<pcStdout, pcStderr, pcMain, ctxDone>>
            /\ (pcStdout # "done" /\ pcStdout' = "done") =>
                   UNCHANGED <<pcStdin, pcStderr, pcMain, ctxDone>>
            /\ (pcStderr # "done" /\ pcStderr' = "done") =>
                   UNCHANGED <<pcStdin, pcStdout, pcMain, ctxDone>>
            /\ (PumpsRunning /\ pcMain' # "select") =>
                   \/ sigC > 0 /\ nGotSignal' = nGotSignal + 1
                   \/ pcWaiter = "send" /\ pcWaiter' = "done" /\ nExitMsg' = nExitMsg + 1
      ]_vars

\* The stdin pump has ended on a write error and the stdout pump at the end
\* of its stream; the stderr pump still copies and the session still waits
\* in its select, no signal taken and no exit reported.
C23_Witness ==
    /\ PumpsRunning
    /\ pcStdin = "done" /\ stdinEnd = "writeError"
    /\ pcStdout = "done"
    /\ pcStderr = "copy"
    /\ nGotSignal = 0 /\ nExitMsg = 0 /\ ~ctxDone

\* C24: when the window size of a session with a pseudo terminal changes
\* while the session is in its select and then stays at a final value with
\* the session still there, and no size query and no send fails, the remote
\* side eventually has the final size.
C24_FinalSizeReachesRemote ==
    \A v \in Sizes :
        ( /\ [](~conf.noTTY /\ pcPump # "queryErr" /\ ~lastFailed)
          /\ <>(PumpsRunning /\ winSize # v)
          /\ <>[](PumpsRunning /\ winSize = v) )
        => <>(remoteWH = v)

\* The part of C24 that holds: the same, for sessions whose window did not
\* change between the pty request and the pump's first size query.
C24_FinalSizeAfterFirstQuery ==
    \A v \in Sizes :
        ( /\ [](~conf.noTTY /\ pcPump # "queryErr" /\ ~lastFailed)
          /\ [](pcPump = "init" => winSize = remoteWH)
          /\ <>(PumpsRunning /\ winSize # v)
          /\ <>[](PumpsRunning /\ winSize = v) )
        => <>(remoteWH = v)

\* C25: the window-change requests of a session come from one sender, the
\* resize pump, which is started once; a request is sent only by the pump
\* standing at its send, one request per step, and the pump makes no new
\* size query before that send is over; the size a successful request
\* delivers is the one the pump observed in the query before it.
C25_OneSenderInOrder ==
    [][pcMain' # "killed" =>
         /\ (pcPump # "init" /\ pcPump' = "init") =>
                pcPump = "notstarted" /\ pcMain = "invokeResize"
         /\ nSends' # nSends =>
                /\ nSends' = nSends + 1
                /\ pcPump = "send" /\ pcPump' = "select"
                /\ remoteWH' = IF lastFailed' THEN remoteWH ELSE newWH
         /\ (pcPump = "send" /\ nSends' = nSends) => (pcPump' = "send" /\ newWH' = newWH)
         /\ (remoteWH' # remoteWH /\ pcMain # "prepareRemote") => nSends' = nSends + 1
      ]_vars

\* Two requests were sent one after the other, and the remote has the size
\* of the second, which is the window's.
C25_Witness ==
    /\ PumpsRunning
    /\ nSends = 2 /\ ~lastFailed
    /\ pcPump = "select"
    /\ remoteWH = winSize /\ lastWH = winSize

\* The calls the remote setup makes on the session, in their order.
SessionSteps(c) ==
    (IF c.noTTY THEN <<>> ELSE <<"RequestPty">>)
        \o <<"StdinPipe", "StdoutPipe", "StderrPipe", "Shell">>

\* C26: the calls the remote setup has made on the session are an initial
\* part of: pty request (exactly when NoTTY is false), stdin pipe, stdout
\* pipe, stderr pipe, shell; the pty request carries the window size read
\* just before it; after a failed step the setup has returned its error with
\* that step as the last one made, and a setup without error has made them
\* all.
C26_RemoteSetupOrder ==
    /\ [](LET made == SelectSeq(setupLog, LAMBDA x : x # "getWindowSize") IN
          /\ IsPrefix(made, SessionSteps(conf))
          /\ retErr \in RemoteSetupErrs =>
                 /\ retErr = SetupErr(setupLog[Len(setupLog)])
                 /\ pcMain \in {"return", "exited"}
          /\ (mode = "interactive" /\ retErr = NoErr /\ pcMain \notin {"prepareRemote", "killed"}) =>
                 made = SessionSteps(conf))
    /\ [][(Len(setupLog') = Len(setupLog) + 1 /\ setupLog'[Len(setupLog')] = "RequestPty"
           /\ retErr' = NoErr) => remoteWH' = setupWH /\ setupWH \in Sizes]_vars

\* With a pty the stdout pipe has failed: the pty request and the stdin pipe
\* were made before it, nothing after it, and the error is returned.
C26_Witness ==
    /\ ~conf.noTTY
    /\ setupLog = <<"getWindowSize", "RequestPty", "StdinPipe", "StdoutPipe">>
    /\ retErr = SetupErr("StdoutPipe")
    /\ pcMain = "return"
    /\ remoteWH \in Sizes /\ remote = "none"

\* C27: after raw-mode entry the output emulator is applied to stderr exactly
\* when the console of stderr rejects virtual-terminal processing, whatever
\* the console of stdout accepts.
C27_StderrOwnDecision ==
    (RawEntryMade /\ retErr = NoErr /\ pcMain # "prepareLocal") =>
        (stderrEmulated(sys) <=> ~host.vtErr)

\* C27, the part the code keeps: stderr is emulated exactly when stdout is,
\* and the console of stderr is asked only when stdout accepted.
C27_StderrMirrorsStdout ==
    (RawEntryMade /\ retErr = NoErr /\ pcMain # "prepareLocal") =>
        /\ stderrEmulated(sys) <=> ~host.vtOutput
        /\ (CallsOn("stderr") # <<>>) <=> host.vtOutput

\* The stream was changed by raw-mode entry: a setConsoleMode call on it
\* succeeded.
ChangedByEntry(fd) ==
    \E i \in 1..Len(CallsOn(fd)) : CallsOn(fd)[i].ok

\* C28: when Close has run after a raw-mode entry and no restoring call
\* failed, every console stream that the entry changed has the mode captured
\* before the change, also when the captured mode is 0.
C28_RestoredToCaptured ==
    [][(host.goos = "windows" /\ closeLog' # closeLog) =>
          LET calls == SubSeq(consoleLog', Len(consoleLog) + 1, Len(consoleLog')) IN
          (\A i \in 1..Len(calls) : calls[i].ok) =>
              \A fd \in {"stdin", "stdout", "stderr"} :
                  ChangedByEntry(fd) => conMode'[fd] = SavedMode(fd)
      ]_vars

\* C28, the part the code keeps: the same for the streams whose captured
\* mode is above zero.
C28_NonZeroRestored ==
    [][(host.goos = "windows" /\ closeLog' # closeLog) =>
          LET calls == SubSeq(consoleLog', Len(consoleLog) + 1, Len(consoleLog')) IN
          (\A i \in 1..Len(calls) : calls[i].ok) =>
              \A fd \in {"stdin", "stdout", "stderr"} :
                  (ChangedByEntry(fd) /\ SavedMode(fd) > 0) => conMode'[fd] = SavedMode(fd)
      ]_vars

\* The steps Close appends to closeLog in this step, and its setConsoleMode
\* calls.
NewCloseSteps == SubSeq(closeLog', Len(closeLog) + 1, Len(closeLog'))

NewCalls == SubSeq(consoleLog', Len(consoleLog) + 1, Len(consoleLog'))

Logged(steps, name) == \E i \in 1..Len(steps) : steps[i] = name

\* The second Close gets from the terminal the answers the first one got:
\* on the console the same outcome call by call, on the unix terminal the
\* same outcome of terminal.Restore.
SameAnswers ==
    IF host.goos = "windows"
    THEN LET n == Len(NewCalls)
             before == SubSeq(consoleLog, Len(consoleLog) - n + 1, Len(consoleLog))
         IN  \A i \in 1..n : NewCalls[i].ok = before[i].ok
    ELSE Logged(NewCloseSteps, "Println") <=> Logged(closeLog, "Println")

\* Raw mode was never entered: no setConsoleMode call of the entry succeeded
\* on the console, terminal.MakeRaw saved no state on the unix terminal.
NeverEntered ==
    IF host.goos = "windows"
    THEN \A fd \in {"stdin", "stdout", "stderr"} : ~ChangedByEntry(fd)
    ELSE origMode = "nil"

C29_NeverEnteredClosed ==
    /\ host.goos = "windows"
    /\ pcMain = "exited" /\ ClosesMade = 1
    /\ retErr # NoErr /\ sys.stdoutMode > 0 /\ sys.stderrMode = 0
    /\ closeLog = <<"Restore", "sess.Close", "conn.Close">>
    /\ conMode = CookedConsole

\* The same on the unix terminal: twice, the first terminal.Restore failed.
C29_UnixTwice ==
    /\ host.goos = "unix"
    /\ pcMain = "exited" /\ ClosesMade = 2
    /\ closeLog[2] = "Println" /\ termMode = "raw"

\* C30: once a prompt has been shown, a signal delivered to the process
\* before it has exited always leads to the end of the process.
C30_SignalAfterPromptEndsProcess ==
    []((prompted /\ nSignals = 0 /\ Alive) => []((nSignals > 0) => <>ProcessEnded))

\* C30, the part the code keeps: a signal in the channel of the prompt's
\* handler while the prompt is still open ends the process, and so does a
\* signal delivered once the session watches the signals itself.
C30_SignalDuringPromptOrSession ==
    /\ [](pcMain = "prompting" /\ promptC > 0 => <>(ProcessEnded \/ stopCClosed))
    /\ [](sigC > 0 => <>ProcessEnded)

\* The resize pump waits for a notification and none is on its way: the
\* window is stable.
PumpIdle ==
    pcPump = "select" /\ ch = 0 /\ winchC = 0 /\ pcWatcher = "select"

\* C31: in a session with a pty, whenever the resize pump waits for a
\* notification and its last send did not fail, its last-known size is the
\* size the remote side was told last, by the pty request or by a successful
\* window-change request; and when, besides, no notification is on its way,
\* the remote size is the size of the local window.
C31_PumpKnowsRemoteSize ==
    (~conf.noTTY /\ Alive /\ pcPump = "select" /\ ~lastFailed) =>
        /\ lastWH = remoteWH
        /\ PumpIdle => remoteWH = winSize

\* C31, the part the code keeps: the same in the sessions in which every
\* query of the window size succeeds and the pump's first one finds the
\* window at the size of the pty request.
C31_AfterMatchingFirstQuery ==
    ([](pcPump = "init" => winSize = remoteWH) /\ [](lastWH # <<-1, -1>>)
       /\ [](pcPump # "queryErr")) =>
        [](C31_PumpKnowsRemoteSize)

InLog(log, s) == \E i \in 1..Len(log) : log[i] = s

\* C32: with NoTTY set the remote setup sends no pty request, it fails only
\* at one of the three pipes or at the start of the shell, and the session
\* sends no window-change request.
C32_NoTTYSetup ==
    conf.noTTY =>
        /\ ~InLog(setupLog, "RequestPty")
        /\ retErr \notin {SetupErr("getWindowSize"), SetupErr("RequestPty")}
        /\ nSends = 0

\* C32, the part the code keeps: with NoTTY set no pty request is sent.
C32_NoPtyRequest ==
    conf.noTTY =>
        /\ ~InLog(setupLog, "RequestPty")
        /\ retErr # SetupErr("RequestPty")

\* A session without a pty has sent a window-change request.
C32_WindowChangeWithoutPty ==
    conf.noTTY /\ nSends > 0 /\ remoteWH # <<0, 0>>

\* The session was ended by the select of RunInteractive, RunCommand or
\* RunSubsystem: by a signal or by the value the exit waiter sent.
EndedBySelect == nGotSignal + nExitMsg > 0

\* C33: once the select of RunInteractive, RunCommand or RunSubsystem has
\* ended the session, by a signal or by any value of the exit waiter, the
\* error returned to the caller is nil, and when the process has exited its
\* exit code is 0.
C33_RunReturnsNil ==
    (EndedBySelect /\ pcMain \in {"defer", "deferWait", "return", "exited"}) =>
        /\ retErr = NoErr
        /\ pcMain = "exited" => exitCode = 0

\* The interactive session ended with a typed exit error of the remote
\* shell; the message was printed and the process has exited.
C33_Witness ==
    /\ mode = "interactive" /\ nExitMsg = 1 /\ waitErr = "ExitError"
    /\ exitMsgs = <<"with error">>
    /\ pcMain = "exited" /\ exitCode = 0

\* The other ways a session ends: a signal, a missing exit status, a command
\* that could not be started, a subsystem.
C33_EndedBySignal ==
    mode = "interactive" /\ nGotSignal = 1 /\ pcMain = "exited" /\ exitCode = 0

C33_MissingStatus ==
    /\ mode = "command" /\ waitErr = "ExitMissingError" /\ nExitMsg = 1
    /\ pcMain = "exited" /\ exitCode = 0

C33_SubsystemEnded ==
    mode = "subsystem" /\ nExitMsg = 1 /\ pcMain = "exited" /\ exitCode = 0

\* C34: when main has returned, no connection that ssh.Dial opened is still
\* open: it was closed before Open returned its error or by Close.
C34_NoConnectionLeft ==
    pcMain = "exited" => conn # "open"

\* C34, the part the code keeps: after an Open that succeeded, Close closes
\* the session and then the connection, whatever Run returned.
C34_CloseClosesConnection ==
    (pcMain = "exited" /\ closeLog # <<>>) =>
        /\ conn = "closed"
        /\ closeLog[Len(closeLog)] = "conn.Close"

\* C35: verifyAndAppendNew accepts a host only if its key matches a
\* known-hosts entry, or the host has no entry and either
\* StrictHostKeyChecking is off or the user answered yes, and then exactly
\* one line was appended, to the first known-hosts file; a key in conflict
\* with an entry of the host is rejected whatever StrictHostKeyChecking is,
\* and nothing is written; without a known-hosts file the host is rejected.
C35_HostKeyVerification ==
    hkOut # NotVerified =>
        /\ hkOut.err = NoErr =>
              \/ hkIn.lookup = "match" /\ hkOut.appended = <<>>
              \/ /\ hkIn.lookup = "unknown"
                 /\ ~hkIn.strict \/ (hkOut.asked /\ hkIn.answer = "yes")
                 /\ hkOut.appended = <<1>>
        /\ hkIn.lookup = "conflict" =>
              hkOut.err # NoErr /\ ~hkOut.asked /\ hkOut.appended = <<>>
        /\ hkIn.files = 0 => hkOut.err # NoErr /\ ~hkOut.asked

\* An unknown host was accepted after the user's yes, with two known-hosts
\* files configured: one line went to the first.
C35_Witness ==
    /\ hkOut # NotVerified
    /\ hkIn.files = 2 /\ hkIn.lookup = "unknown" /\ hkIn.strict /\ hkIn.answer = "yes"
    /\ hkOut = HostKeyResult(NoErr, TRUE, <<1>>)

\* A conflicting key was rejected with StrictHostKeyChecking off.
C35_ConflictRejected ==
    /\ hkOut # NotVerified
    /\ hkIn.lookup = "conflict" /\ ~hkIn.strict /\ hkIn.files > 0 /\ hkIn.loadOk
    /\ hkOut.err = "failed:conflict"

\* A key-down event with a character that is neither zero nor a surrogate
\* half and for which toAnsiSeq has no sequence.
Ordinary(rec) ==
    /\ rec.eventType = keyEvent /\ rec.event.keyDown = 1
    /\ toAnsiSeq(rec.event) = NilSeq
    /\ rec.event.unicodeChar # 0 /\ ~IsSurrogate(rec.event.unicodeChar)

IsSuffix(s, t) ==
    Len(s) <= Len(t) /\ SubSeq(t, Len(t) - Len(s) + 1, Len(t)) = s

\* The last record of the reader's last Read is an ordinary key and the
\* bytes returned end with the UTF-8 encoding of its character.
LastKeyEncoded(recs, out) ==
    Ordinary(recs[Len(recs)]) =>
        IsSuffix(EncodeRune(recs[Len(recs)].event.unicodeChar), out)

\* C36: an ordinary key-down event emits the UTF-8 encoding of its
\* character, whether or not a surrogate half is pending from an earlier
\* event.
C36_OrdinaryKeyEncoded ==
    \A i \in Readers : arRecs[i] # <<>> => LastKeyEncoded(arRecs[i], arOut[i])

\* C36, the part the code keeps: the same for a Read that starts with no
\* half pending and whose earlier record is not a half.
C36_EncodedWithoutPendingHalf ==
    [][\A i \in Readers :
          (/\ <<ar[i], arRecs[i], arOut[i]>>' # <<ar[i], arRecs[i], arOut[i]>>
           /\ ar[i] = 0
           /\ Len(arRecs'[i]) = 2 => arRecs'[i][1] \notin {HighHalf, LowHalf}) =>
              LastKeyEncoded(arRecs'[i], arOut'[i])
      ]_vars

\* C37: when raw-mode entry returns an error, the console modes of stdin,
\* stdout and stderr and the mode of the unix terminal are those from before
\* the call.
C37_EntryErrorChangesNothing ==
    [][(pcMain = "prepareLocal" /\ pcMain' # "prepareLocal" /\ retErr' # NoErr) =>
          (conMode' = conMode /\ termMode' = termMode)
      ]_vars

\* Raw-mode entry failed on a console that rejected both modes requested for
\* stdin, after the three modes were captured.
C37_Witness ==
    /\ host.goos = "windows"
    /\ pcMain = "return" /\ retErr = "failed:setConsoleMode"
    /\ Len(consoleLog) = 2 /\ ~consoleLog[1].ok /\ ~consoleLog[2].ok
    /\ sys.stderrMode > 0
    /\ conMode = CookedConsole /\ termMode = "cooked"

\* Raw-mode entry failed on the unix terminal.
C37_UnixEntryFailed ==
    /\ host.goos = "unix"
    /\ pcMain = "return" /\ retErr = "failed:MakeRaw" /\ termMode = "cooked"

\* A record the input emulation passes over: a key-up, or an event that is not
\* a key event.
IgnoredRecord(rec) ==
    \/ rec.eventType = keyEvent /\ rec.event.keyDown # 1
    \/ rec.eventType \in {mouseEvent, windowBufferSizeEvent, focusEvent, menuEvent}

\* C38: under the input emulation, a read of the stdin pump that took only
\* key-up, mouse, window-buffer-size, focus or menu records puts no byte into
\* the buffer and reports no error: nothing is written to the remote stdin,
\* it is not closed, and the pump reads again; and the pump sees the end of
\* the stream only on a console read that took no record.
C38_IgnoredEventsReadNothing ==
    [][(host.goos = "windows" /\ sys.emuStdin /\ pcStdin = "read") =>
          /\ (/\ Len(stdinGot') > Len(stdinGot)
              /\ \A i \in (Len(stdinGot) + 1)..Len(stdinGot') : IgnoredRecord(stdinGot'[i]))
               => /\ buf' = <<>>
                  /\ rStdinData' = rStdinData
                  /\ stdinCloses' = stdinCloses
                  /\ stdinEnd' = "none"
                  /\ pcStdin' = "read"
          /\ (stdinEnd = "none" /\ stdinEnd' = "eof") => stdinGot' = stdinGot
      ]_vars

\* The pump took a window-buffer-size and a focus record from the console and
\* reads again: nothing was written and the remote stdin is open.
C38_Witness ==
    /\ host.goos = "windows" /\ sys.emuStdin
    /\ stdinGot = <<OtherEvent(windowBufferSizeEvent), OtherEvent(focusEvent)>>
    /\ pcStdin = "read" /\ stdinEnd = "none" /\ stdinCloses = 0
    /\ rStdinData = <<>> /\ nWritten = 0

\* After a key-up and a mouse record in one read, the key a of the next read
\* reached the remote stdin.
C38_KeyAfterIgnored ==
    /\ host.goos = "windows" /\ sys.emuStdin
    /\ stdinGot = <<KeyUp, OtherEvent(mouseEvent), KeyDown(65, 97, 0)>>
    /\ nInput = 2 /\ rStdinData = <<97>> /\ stdinCloses = 0

\* The end of the stream after reads of ignored records only.
C38_EndAfterIgnored ==
    /\ host.goos = "windows" /\ sys.emuStdin
    /\ stdinGot = <<OtherEvent(windowBufferSizeEvent), OtherEvent(focusEvent)>>
    /\ stdinEnd = "eof" /\ stdinCloses = 1 /\ rStdinData = <<>>

\* The paths in a.conf.IdentityFiles after parseArgs.
Offered == {idOut[i] : i \in 1..Len(idOut)}

\* C39: after parseArgs of a command line without -i, every default identity
\* file that exists in the application's data directory is among the identity
\* files, and with -U every one that exists in the .ssh directory too.
C39_DefaultIdentityFiles ==
    (idOut # "pending" /\ idIn.given = <<>>) =>
        \A f \in DefaultNames :
            /\ f \in idIn.appFiles => <<"app", f>> \in Offered
            /\ (idIn.useOpenSSHFiles /\ f \in idIn.sshFiles) => <<"ssh", f>> \in Offered

\* Without -i the identity files are those of the .ssh directory that exist,
\* if -U was given, in the order of the default names, and none without -U.
C39_OnlyOpenSSHDefaults ==
    (idOut # "pending" /\ idIn.given = <<>>) =>
        /\ Offered = IF idIn.useOpenSSHFiles
                     THEN {<<"ssh", f>> : f \in idIn.sshFiles}
                     ELSE {}
        /\ Len(idOut) = Cardinality(Offered)

\* id_rsa exists in both directories and -U was given: parseArgs has run.
C39_BothDirectories ==
    /\ idOut # "pending" /\ idIn.given = <<>> /\ idIn.useOpenSSHFiles
    /\ idIn.appFiles = {"id_rsa"} /\ idIn.sshFiles = {"id_rsa", "id_ed25519"}
    /\ idOut = <<<<"ssh", "id_rsa">>, <<"ssh", "id_ed25519">>>>

====
